---- MODULE Spec2Model ----
(***************************************************************************)
(* Verification model of the Liquipedia data extractor.                    *)
(*                                                                         *)
(*  - Request governor: LiquipediaService.makeRequest and the three        *)
(*    module-level Bottleneck limiters (src/src/services/                  *)
(*    liquipediaService.js, lines 26-41 and 162-202).                      *)
(*  - Scheduler: SchedulerService, its isRunning flags and its sync runs   *)
(*    (src/unnamed/part_003).                                              *)
(*                                                                         *)
(* Times are in milliseconds.  The clock advances in steps of Tick; a      *)
(* timer fires at or after its deadline, never before.                     *)
(***************************************************************************)
EXTENDS Integers, Sequences, FiniteSets, TLC

(***************************************************************************)
(* Bounds of the model.                                                    *)
(***************************************************************************)
NCalls == 2
NRuns  == 2

(***************************************************************************)
(* Program constants.                                                      *)
(***************************************************************************)
standardMinTime  == 2000
intensiveMinTime == 30000
lpdbMinTime      == 60000
maxConcurrent    == 1
baseDelay        == 2000
MaxRetries       == 3
Tick             == 2000

Calls          == 1..NCalls
Classes        == {"standard", "intensive", "lpdb"}
OperationTypes == {"standard", "intensive", "lpdb"}
Responses      == {"ok", "429", "error"}

VARIABLES
  pc,          \* pc[k]: position of call k's innermost makeRequest job
  opType,      \* opType[k]: the operationType argument of call k
  limiter,     \* limiter[k]: the limiter chosen for call k
  retryCount,  \* retryCount[k]: retryCount argument of the innermost job
  timer,       \* timer[k]: remaining backoff delay of call k
  queue,       \* queue[c]: jobs waiting in limiter c, in arrival order
  running,     \* running[c]: jobs of limiter c that started and have not settled
  sinceLaunch, \* sinceLaunch[c]: time since limiter c last launched a job (saturating)
  attempts,    \* attempts[k]: remote requests sent for call k
  all429,      \* all429[k]: every response call k received so far was a 429
  delays,      \* delays[k]: the backoff delays call k has waited, in order
  result,      \* result[k]: what call k gave its caller
  lastGap      \* lastGap[c]: time between the two latest launches of limiter c

govVars == <<pc, opType, limiter, retryCount, timer, queue, running, sinceLaunch,
             attempts, all429, delays, result, lastGap>>

VARIABLES
  isRunning,   \* isRunning[K]: SchedulerService.isRunning, one flag per sync kind
  runKind,     \* runKind[i]: the sync method invocation i called
  runPc,       \* runPc[i]: position of invocation i
  frame,       \* frame[i]: the sync method whose body invocation i is executing
  game,        \* game[i]: index of the game the loop of frame[i] is at
  step,        \* step[i]: index of the sub-sync a fullSync run is at
  didRemote,   \* didRemote[i]: invocation i asked for a remote request
  didWrite,    \* didWrite[i]: invocation i wrote to the database
  didLog,      \* didLog[i]: a sync_log row of invocation i was stored
  fullLog      \* fullLog[i]: the logSync('full', ...) calls of invocation i, in order

VARIABLE
  jammed       \* jammed[c]: limiter c's only slot is held by a job that cannot finish

schedVars == <<isRunning, runKind, runPc, frame, game, step, didRemote, didWrite,
               didLog, fullLog>>

VARIABLES
  aggPc,       \* aggPc[t]: position of fetchTournamentByName invocation t
  aggStatus,   \* aggStatus[t]: tournamentData.status
  aggTeams,    \* aggTeams[t]: tournamentData.teams.length > 0
  aggRemote,   \* aggRemote[t]: invocation t asked for a remote request
  overlapped,  \* overlapped[t]: t was invoked while another invocation was in flight
  aggSteps,    \* aggSteps[t]: the steps 3 to 6 invocation t has started, in order
  aggRecord    \* aggRecord[t]: the other fields of tournamentData

aggVars == <<aggPc, aggStatus, aggTeams, aggRemote, overlapped, aggSteps, aggRecord>>

VARIABLES
  stPc,        \* position of the status computation
  stStart,     \* tournamentInfo.dates.start
  stEnd,       \* tournamentInfo.dates.end
  stNow,       \* currentDate
  stStatus,    \* the status computed
  stBy         \* who computed it: fetchTournamentByName or the status route

statVars == <<stPc, stStart, stEnd, stNow, stStatus, stBy>>

VARIABLES
  fKind,       \* "teams" for fetchTeams, "players" for fetchPlayers
  fGame,       \* the game argument
  fPc,         \* position of the fetch
  fLpdb,       \* outcome of the LPDB stage
  fFallback,   \* outcome of the fallback stage
  fList,       \* the list (teams / players) before the enhancement
  fStage,      \* the stage that produced fList
  fResult      \* what the fetch returned

fetchVars == <<fKind, fGame, fPc, fLpdb, fFallback, fList, fStage, fResult>>

VARIABLES
  rPc,         \* position of fetchTournamentDetails
  rName,       \* tournamentName
  rPages,      \* the titles that have a page on the remote wiki
  rIdx,        \* index of the variation being looked up
  rRequests,   \* the lookups and searches asked for, in order
  rResult,     \* what fetchTournamentDetails returned
  rFound,      \* found_name of the record returned
  rVia,        \* index of the variation that matched (7: the search)
  rFault,      \* a request failed with a transport error
  rHits,       \* searchResults: the titles the search gave back, in order
  rHit         \* index of the search result whose page is being asked for

resVars == <<rPc, rName, rPages, rIdx, rRequests, rResult, rFound, rVia, rFault, rHits, rHit>>

VARIABLES
  pPc,           \* position of the resolve and teams steps for one tournament
  pParticipants, \* tournament.parsed_data.participants (participantNames)
  pPages,        \* team pages of fetchTournamentTeamsImproved still to read
  pTeams,        \* tournamentData.teams: what fetchTournamentTeamsImproved returned
  pPlayers,      \* tournamentData.players
  pAsked         \* the requests fetchTournamentPlayers has issued

partVars == <<pPc, pParticipants, pPages, pTeams, pPlayers, pAsked>>

VARIABLES
  mPc,        \* position of the markup extraction for one tournament page
  mWikitext,  \* the wikitext handed to parseTournamentWikitext
  mParsed,    \* parsedData
  mBefore     \* parsedData as it was when extractDataFromHTML was called

markVars == <<mPc, mWikitext, mParsed, mBefore>>

VARIABLES
  dbPc,      \* what the database last did: initDatabase, a COMMIT or a ROLLBACK
  dbUnique,  \* the table has its UNIQUE(liquipedia_id, game) constraint
  dbRows,    \* the rows of the table, in the order of their serial ids
  dbBatch,   \* the batch of the latest upsert that committed
  dbFailedAt, \* the record of the latest batch whose statement failed, 0 for none
  dbThrew,   \* the error the latest upsert threw: of a statement, of ROLLBACK, or nothing
  dbHeld     \* the clients taken from the pool and not released

dbVars == <<dbPc, dbUnique, dbRows, dbBatch, dbFailedAt, dbThrew, dbHeld>>

VARIABLES
  lLoop,      \* the sub-resource loop that is running
  lPc,        \* its position: at the await of an item's fetch, or of the delay
  lLeft,      \* the items after the current one
  lInFlight,  \* the makeRequest calls of the loop that have not settled
  lHasty      \* an item's fetch was started with no delay after the one before

loopVars == <<lLoop, lPc, lLeft, lInFlight, lHasty>>

VARIABLES
  tmPc,        \* position of fetchTournamentMatchesDetailed
  tmLeft,      \* the subpages, or search results, whose details are still to fetch
  tmMatches,   \* matches: the type of each match pushed, in order
  tmAsked,     \* the requests asked for, in order
  tmFaults     \* the requests that failed with an error

tmVars == <<tmPc, tmLeft, tmMatches, tmAsked, tmFaults>>

vars == <<govVars, schedVars, jammed, aggVars, statVars, fetchVars, resVars, partVars, markVars, dbVars, loopVars, tmVars>>

nonGovVars   == <<schedVars, jammed, aggVars, statVars, fetchVars, resVars, partVars, markVars, dbVars, loopVars, tmVars>>
nonSchedVars == <<govVars, aggVars, statVars, fetchVars, resVars, partVars, markVars, dbVars, loopVars, tmVars>>
nonAggVars   == <<govVars, schedVars, statVars, fetchVars, resVars, partVars, markVars, dbVars, loopVars, tmVars>>
nonStatVars  == <<govVars, schedVars, jammed, aggVars, fetchVars, resVars, partVars, markVars, dbVars, loopVars, tmVars>>
nonFetchVars == <<govVars, schedVars, aggVars, statVars, resVars, partVars, markVars, dbVars, loopVars, tmVars>>

nonResVars   == <<govVars, schedVars, aggVars, statVars, fetchVars, partVars, markVars, dbVars, loopVars, tmVars>>

nonPartVars  == <<govVars, schedVars, aggVars, statVars, fetchVars, resVars, markVars, dbVars, loopVars, tmVars>>

nonMarkVars == <<govVars, schedVars, jammed, aggVars, statVars, fetchVars, resVars, partVars, dbVars, loopVars, tmVars>>

nonDbVars == <<govVars, schedVars, jammed, aggVars, statVars, fetchVars, resVars, partVars, markVars, loopVars, tmVars>>

nonLoopVars == <<govVars, schedVars, aggVars, statVars, fetchVars, resVars, partVars, markVars, dbVars, tmVars>>

nonTmVars == <<govVars, schedVars, aggVars, statVars, fetchVars, resVars, partVars, markVars, dbVars, loopVars>>

(***************************************************************************)
(* Helpers.                                                                *)
(***************************************************************************)
Min(a, b) == IF a < b THEN a ELSE b
Max(a, b) == IF a > b THEN a ELSE b

RECURSIVE Pow2(_)
Pow2(n) == IF n = 0 THEN 1 ELSE 2 * Pow2(n - 1)

(***************************************************************************)
(* The limiters.                                                           *)
(***************************************************************************)
MinTime(c) ==
  CASE c = "standard"  -> standardMinTime
    [] c = "intensive" -> intensiveMinTime
    [] c = "lpdb"      -> lpdbMinTime

LimiterShared(op) == "standard"

\* makeRequest's limiter selection.
LimiterOf(op) ==
  IF op = "intensive" THEN "intensive"
  ELSE IF op = "lpdb" THEN "lpdb"
  ELSE "standard"

\* Bottleneck launches the head of the queue when fewer than maxConcurrent
\* jobs are running and minTime has passed since the previous launch.
CanLaunchNoMinTime(c) ==
  /\ queue[c] # <<>>
  /\ running[c] < maxConcurrent

CanLaunch(c) ==
  /\ queue[c] # <<>>
  /\ running[c] < maxConcurrent
  /\ sinceLaunch[c] >= MinTime(c)

\* delay = this.baseDelay * Math.pow(2, retryCount)
BackoffDelay(rc) == baseDelay * Pow2(rc)

\* Slots of its limiter that call k occupies: every job of the call that was
\* launched and has not settled (the outer jobs await the nested call).
SlotsHeld(k) ==
  CASE pc[k] \in {"inflight", "backoff"} -> retryCount[k] + 1
    [] pc[k] = "queued"                  -> retryCount[k]
    [] OTHER                             -> 0

GovInit ==
  /\ pc          = [k \in Calls |-> "idle"]
  /\ opType      = [k \in Calls |-> "standard"]
  /\ limiter     = [k \in Calls |-> "standard"]
  /\ retryCount  = [k \in Calls |-> 0]
  /\ timer       = [k \in Calls |-> 0]
  /\ queue       = [c \in Classes |-> <<>>]
  /\ running     = [c \in Classes |-> 0]
  /\ sinceLaunch = [c \in Classes |-> MinTime(c)]
  /\ attempts    = [k \in Calls |-> 0]
  /\ all429      = [k \in Calls |-> TRUE]
  /\ delays      = [k \in Calls |-> <<>>]
  /\ result      = [k \in Calls |-> "pending"]
  /\ lastGap     = [c \in Classes |-> -1]

\* A caller invokes makeRequest(url, params, 0, op): the job is handed to
\* limiter.schedule.
MakeRequest(k, op) ==
  /\ UNCHANGED nonGovVars
  /\ pc[k] = "idle"
  /\ pc' = [pc EXCEPT ![k] = "queued"]
  /\ opType' = [opType EXCEPT ![k] = op]
  /\ limiter' = [limiter EXCEPT ![k] = LimiterOf(op)]
  /\ retryCount' = [retryCount EXCEPT ![k] = 0]
  /\ queue' = [queue EXCEPT ![LimiterOf(op)] = Append(@, k)]
  /\ UNCHANGED <<timer, running, sinceLaunch, attempts, all429, delays, result, lastGap>>

\* The limiter starts the job at the head of its queue: axios.get is sent.
Launch(c) ==
  /\ UNCHANGED nonGovVars
  /\ CanLaunch(c)
  /\ LET k == Head(queue[c]) IN
       /\ pc' = [pc EXCEPT ![k] = "inflight"]
       /\ attempts' = [attempts EXCEPT ![k] = @ + 1]
  /\ queue' = [queue EXCEPT ![c] = Tail(@)]
  /\ running' = [running EXCEPT ![c] = @ + 1]
  /\ lastGap' = [lastGap EXCEPT ![c] =
                   IF \E k \in Calls : limiter[k] = c /\ attempts[k] > 0
                   THEN sinceLaunch[c] ELSE @]
  /\ sinceLaunch' = [sinceLaunch EXCEPT ![c] = 0]
  /\ UNCHANGED <<opType, limiter, retryCount, timer, all429, delays, result>>

\* The job's promise settles: every job of the call (the innermost and the
\* outer ones awaiting it) returns or throws, and frees its slot.
Settle(k, res) ==
  /\ pc' = [pc EXCEPT ![k] = "settled"]
  /\ result' = [result EXCEPT ![k] = res]
  /\ running' = [running EXCEPT ![limiter[k]] = @ - SlotsHeld(k)]
  /\ UNCHANGED <<timer, delays>>

AnyFailure(r) == r # "ok"

\* if (error.response && error.response.status === 429)
IsRateLimit(r) == r = "429"

\* The remote service answers (or the 20 s timeout ends the request).
Respond(k, r) ==
  /\ UNCHANGED nonGovVars
  /\ pc[k] = "inflight"
  /\ all429' = [all429 EXCEPT ![k] = @ /\ r = "429"]
  /\ CASE r = "ok" -> Settle(k, "data")
       [] r # "ok" /\ IsRateLimit(r) /\ retryCount[k] < MaxRetries ->
            /\ pc' = [pc EXCEPT ![k] = "backoff"]
            /\ timer' = [timer EXCEPT ![k] = BackoffDelay(retryCount[k])]
            /\ delays' = [delays EXCEPT ![k] = Append(@, BackoffDelay(retryCount[k]))]
            /\ UNCHANGED <<result, running>>
       [] r # "ok" /\ IsRateLimit(r) /\ retryCount[k] >= MaxRetries ->
            Settle(k, "RateLimited")
       [] r # "ok" /\ ~IsRateLimit(r) -> Settle(k, "error")
  /\ UNCHANGED <<opType, limiter, retryCount, queue, sinceLaunch, attempts, lastGap>>

\* The backoff delay is over: the running job calls
\* this.makeRequest(url, params, retryCount + 1, operationType) and awaits it.
Retry(k) ==
  /\ UNCHANGED nonGovVars
  /\ pc[k] = "backoff"
  /\ timer[k] = 0
  /\ pc' = [pc EXCEPT ![k] = "queued"]
  /\ retryCount' = [retryCount EXCEPT ![k] = @ + 1]
  /\ queue' = [queue EXCEPT ![LimiterOf(opType[k])] = Append(@, k)]
  /\ UNCHANGED <<opType, limiter, timer, running, sinceLaunch, attempts, all429,
                 delays, result, lastGap>>

\* Time passes.
Advance ==
  /\ UNCHANGED nonGovVars
  /\ sinceLaunch' = [c \in Classes |-> Min(sinceLaunch[c] + Tick, MinTime(c))]
  /\ timer' = [k \in Calls |-> Max(timer[k] - Tick, 0)]
  /\ UNCHANGED <<pc, opType, limiter, retryCount, queue, running, attempts, all429,
                 delays, result, lastGap>>

GovNext ==
  \/ \E k \in Calls, op \in OperationTypes : MakeRequest(k, op)
  \/ \E c \in Classes : Launch(c)
  \/ \E k \in Calls, r \in Responses : Respond(k, r)
  \/ \E k \in Calls : Retry(k)
  \/ Advance

(***************************************************************************)
(* SchedulerService.                                                       *)
(*                                                                         *)
(* A run awaits one thing at a time; what it does between two awaits is    *)
(* one step.  A remote request is summarised by its outcome: data rows, no *)
(* rows, an error, or a 429.  A request answered with a 429 never settles  *)
(* and keeps its limiter's slot (see ThrottledNeverSettles), so every      *)
(* later request of that limiter waits for ever as well.                   *)
(***************************************************************************)
Runs          == 1..NRuns
Kinds         == {"teams", "players", "matches", "tournaments",
                  "detailedMatches", "tournamentResults", "full"}
DetailedKinds == {"detailedMatches", "tournamentResults"}
Shuffled == <<"players", "teams", "matches", "tournaments">>

\* fullSync: await this.syncTeams(); ... await this.syncTournaments();
SubSyncs == <<"teams", "players", "matches", "tournaments">>
Outcomes      == {"rows", "empty", "error", "throttled"}

\* const games = ['dota2', 'counterstrike', 'leagueoflegends'] / ['dota2']
NumGames(K) == IF K \in DetailedKinds THEN 1 ELSE 3

\* The limiter of a fetch's first request: fetchFromLPDB uses 'lpdb',
\* fetchLPDBData the default 'standard'.
FirstClass(K) ==
  IF K \in DetailedKinds THEN LimiterOf("standard") ELSE LimiterOf("lpdb")

\* The limiter of what follows: the fallback uses 'standard', the detail
\* pages (action=parse) 'intensive'.
SecondClass(K) ==
  IF K \in DetailedKinds THEN LimiterOf("intensive") ELSE LimiterOf("standard")

\* enhanceTeamData / enhancePlayerData read team.category, which only the
\* rows of the fallback stage have.
EnhanceThrows(K, stage) == K \in {"teams", "players"} /\ stage = 1

\* Does the fetch go on to its second stage after the first request?
NeedsStage2(K, r) ==
  IF K \in DetailedKinds THEN r = "rows" ELSE r \in {"empty", "error"}

\* Is the list the fetch hands back non-empty?
ListNonEmpty(K, stage, r) ==
  IF K \in DetailedKinds
  THEN stage = 2
  ELSE r = "rows" /\ ~EnhanceThrows(K, stage)

\* DatabaseService has upsertTeams, upsertPlayers and upsertMatches only.
HasUpsert(K) == K \notin {"tournaments", "tournamentResults"}

NeverGuarded(K) == FALSE

\* if (this.isRunning.<kind>) { ...; return; }
Guarded(K) == isRunning[K]

SchedInit ==
  /\ isRunning = [K \in Kinds |-> FALSE]
  /\ runKind   = [i \in Runs |-> "teams"]
  /\ runPc     = [i \in Runs |-> "idle"]
  /\ frame     = [i \in Runs |-> "teams"]
  /\ game      = [i \in Runs |-> 1]
  /\ step      = [i \in Runs |-> 1]
  /\ didRemote = [i \in Runs |-> FALSE]
  /\ didWrite  = [i \in Runs |-> FALSE]
  /\ didLog    = [i \in Runs |-> FALSE]
  /\ fullLog   = [i \in Runs |-> <<>>]

JamInit == jammed = [c \in Classes |-> FALSE]

AfterSubPc(n) == IF n < Len(SubSyncs) THEN "delay" ELSE "logfull"

\* fullSync calls its n-th sub-sync, which runs up to its first await;
\* flags are the isRunning flags at the call.
EnterSub(i, n, flags) ==
  LET K == SubSyncs[n] IN
  /\ step' = [step EXCEPT ![i] = n]
  /\ IF Guarded(K)
     THEN /\ isRunning' = flags
          /\ frame' = [frame EXCEPT ![i] = "full"]
          /\ runPc' = [runPc EXCEPT ![i] = AfterSubPc(n)]
          /\ UNCHANGED <<game, didRemote>>
     ELSE /\ isRunning' = [flags EXCEPT ![K] = TRUE]
          /\ frame' = [frame EXCEPT ![i] = K]
          /\ runPc' = [runPc EXCEPT ![i] = "stage1"]
          /\ game' = [game EXCEPT ![i] = 1]
          /\ didRemote' = [didRemote EXCEPT ![i] = TRUE]

\* finally { this.isRunning.<kind> = false; } and the return to the caller;
\* the loop variable is gone.
ReturnFrame(i) ==
  /\ isRunning' = [isRunning EXCEPT ![frame[i]] = FALSE]
  /\ game' = [game EXCEPT ![i] = 1]
  /\ IF runKind[i] = "full"
     THEN /\ frame' = [frame EXCEPT ![i] = "full"]
          /\ runPc' = [runPc EXCEPT ![i] = AfterSubPc(step[i])]
     ELSE /\ runPc' = [runPc EXCEPT ![i] = "returned"]
          /\ UNCHANGED frame
  /\ UNCHANGED <<step, didRemote>>

\* The loop goes to its next game, or ends.
NextGame(i) ==
  IF game[i] < NumGames(frame[i])
  THEN /\ game' = [game EXCEPT ![i] = @ + 1]
       /\ runPc' = [runPc EXCEPT ![i] = "stage1"]
       /\ UNCHANGED <<isRunning, frame, step, didRemote>>
  ELSE ReturnFrame(i)

\* The end of the loop body: the detailed syncs sleep before the next game.
AfterGame(i) ==
  IF frame[i] \in DetailedKinds
  THEN /\ runPc' = [runPc EXCEPT ![i] = "pause"]
       /\ UNCHANGED <<isRunning, frame, game, step, didRemote>>
  ELSE NextGame(i)

\* The fetch returned its list.
FetchDone(i, nonEmpty) ==
  IF nonEmpty
  THEN /\ runPc' = [runPc EXCEPT ![i] = "upsert"]
       /\ UNCHANGED <<isRunning, frame, game, step, didRemote>>
  ELSE AfterGame(i)

\* A cron job or an HTTP route calls sync method K.
Invoke(i, K) ==
  /\ UNCHANGED nonSchedVars
  /\ runPc[i] = "idle"
  /\ runKind' = [runKind EXCEPT ![i] = K]
  /\ IF Guarded(K)
     THEN /\ runPc' = [runPc EXCEPT ![i] = "skipped"]
          /\ UNCHANGED <<isRunning, frame, game, step, didRemote>>
     ELSE IF K = "full"
          THEN EnterSub(i, 1, [isRunning EXCEPT ![K] = TRUE])
          ELSE /\ isRunning' = [isRunning EXCEPT ![K] = TRUE]
               /\ frame' = [frame EXCEPT ![i] = K]
               /\ runPc' = [runPc EXCEPT ![i] = "stage1"]
               /\ game' = [game EXCEPT ![i] = 1]
               /\ didRemote' = [didRemote EXCEPT ![i] = TRUE]
               /\ UNCHANGED step
  /\ UNCHANGED <<jammed, didWrite, didLog, fullLog>>

\* The first request of the fetch settles with outcome r.
Stage1(i, r) ==
  /\ UNCHANGED nonSchedVars
  /\ runPc[i] = "stage1"
  /\ ~jammed[FirstClass(frame[i])]
  /\ IF r = "throttled"
     THEN /\ jammed' = [jammed EXCEPT ![FirstClass(frame[i])] = TRUE]
          /\ UNCHANGED <<isRunning, runPc, frame, game, step, didRemote>>
     ELSE /\ UNCHANGED jammed
          /\ IF NeedsStage2(frame[i], r)
             THEN /\ runPc' = [runPc EXCEPT ![i] = "stage2"]
                  /\ UNCHANGED <<isRunning, frame, game, step, didRemote>>
             ELSE FetchDone(i, ListNonEmpty(frame[i], 1, r))
  /\ UNCHANGED <<runKind, didWrite, didLog, fullLog>>

\* The second stage of the fetch settles with outcome r.
Stage2(i, r) ==
  /\ UNCHANGED nonSchedVars
  /\ runPc[i] = "stage2"
  /\ ~jammed[SecondClass(frame[i])]
  /\ IF r = "throttled"
     THEN /\ jammed' = [jammed EXCEPT ![SecondClass(frame[i])] = TRUE]
          /\ UNCHANGED <<isRunning, runPc, frame, game, step, didRemote>>
     ELSE /\ UNCHANGED jammed
          /\ FetchDone(i, ListNonEmpty(frame[i], 2, r))
  /\ UNCHANGED <<runKind, didWrite, didLog, fullLog>>

\* await this.databaseService.upsert<Kind>(list): commits, or throws.
Upsert(i, ok) ==
  /\ UNCHANGED nonSchedVars
  /\ runPc[i] = "upsert"
  /\ IF HasUpsert(frame[i]) /\ ok
     THEN /\ runPc' = [runPc EXCEPT ![i] = "logok"]
          /\ didWrite' = [didWrite EXCEPT ![i] = TRUE]
     ELSE /\ runPc' = [runPc EXCEPT ![i] = "catch"]
          /\ UNCHANGED didWrite
  /\ UNCHANGED <<isRunning, runKind, frame, game, step, jammed, didRemote, didLog, fullLog>>

\* await this.databaseService.logSync(kind, game, 'success', processed);
\* logSync stores the row, or logs that it could not and returns.
LogOk(i) ==
  /\ UNCHANGED nonSchedVars
  /\ runPc[i] = "logok"
  /\ didWrite' = [didWrite EXCEPT ![i] = TRUE]
  /\ \E stored \in BOOLEAN : didLog' = [didLog EXCEPT ![i] = @ \/ stored]
  /\ AfterGame(i)
  /\ UNCHANGED <<runKind, jammed, fullLog>>

\* The sleep at the end of a detailed sync's loop body is over.
Pause(i) ==
  /\ UNCHANGED nonSchedVars
  /\ runPc[i] = "pause"
  /\ NextGame(i)
  /\ UNCHANGED <<runKind, jammed, didWrite, didLog, fullLog>>

LogSyncRethrows(stored) == ~stored

\* logSync: catch (error) { logger.error('Failed to log sync', error); }:
\* a row that could not be stored does not make logSync throw.
LogSyncThrows(stored) == FALSE

\* What an exception leaving the logSync of a sync method's catch would do:
\* the finally of the sync method, and in a fullSync run the catch of
\* fullSync with its logSync('full', null, 'error', ...) and its finally.
Thrown(i) ==
  /\ runPc' = [runPc EXCEPT ![i] = "returned"]
  /\ game' = [game EXCEPT ![i] = 1]
  /\ UNCHANGED <<step, didRemote>>
  /\ IF runKind[i] = "full"
     THEN /\ isRunning' = [isRunning EXCEPT ![frame[i]] = FALSE, !["full"] = FALSE]
          /\ frame' = [frame EXCEPT ![i] = "full"]
          /\ \E stored \in BOOLEAN :
               fullLog' = [fullLog EXCEPT ![i] =
                            Append(@, [status |-> "error", stored |-> stored])]
     ELSE /\ isRunning' = [isRunning EXCEPT ![frame[i]] = FALSE]
          /\ UNCHANGED <<frame, fullLog>>

\* catch: await this.databaseService.logSync(kind, null, 'error', ...)
CatchLog(i) ==
  /\ UNCHANGED nonSchedVars
  /\ runPc[i] = "catch"
  /\ didWrite' = [didWrite EXCEPT ![i] = TRUE]
  /\ \E stored \in BOOLEAN :
       /\ didLog' = [didLog EXCEPT ![i] = @ \/ stored]
       /\ IF LogSyncThrows(stored)
          THEN Thrown(i)
          ELSE ReturnFrame(i) /\ UNCHANGED fullLog
  /\ UNCHANGED <<runKind, jammed>>

\* fullSync's 10 s delay is over: it calls the next sub-sync.
DelayOver(i) ==
  /\ UNCHANGED nonSchedVars
  /\ runPc[i] = "delay"
  /\ EnterSub(i, step[i] + 1, isRunning)
  /\ UNCHANGED <<runKind, jammed, didWrite, didLog, fullLog>>

\* fullSync: logSync('full', null, 'success'), then finally.
LogFull(i) ==
  /\ UNCHANGED nonSchedVars
  /\ runPc[i] = "logfull"
  /\ didWrite' = [didWrite EXCEPT ![i] = TRUE]
  /\ \E stored \in BOOLEAN :
       /\ didLog' = [didLog EXCEPT ![i] = @ \/ stored]
       /\ fullLog' = [fullLog EXCEPT ![i] =
                        Append(@, [status |-> "success", stored |-> stored])]
  /\ isRunning' = [isRunning EXCEPT !["full"] = FALSE]
  /\ runPc' = [runPc EXCEPT ![i] = "returned"]
  /\ UNCHANGED <<runKind, frame, game, step, jammed, didRemote>>

SchedNext ==
  \/ \E i \in Runs, K \in Kinds : Invoke(i, K)
  \/ \E i \in Runs, r \in Outcomes : Stage1(i, r)
  \/ \E i \in Runs, r \in Outcomes : Stage2(i, r)
  \/ \E i \in Runs, ok \in BOOLEAN : Upsert(i, ok)
  \/ \E i \in Runs : LogOk(i)
  \/ \E i \in Runs : Pause(i)
  \/ \E i \in Runs : CatchLog(i)
  \/ \E i \in Runs : DelayOver(i)
  \/ \E i \in Runs : LogFull(i)

(***************************************************************************)
(* Tournament status (fetchTournamentByName step 2, and the                *)
(* /api/tournament/:tournamentName/status route).                          *)
(*                                                                         *)
(* A date field of the parsed tournament is <<"none", 0>> when the markup  *)
(* has no such entry, <<"bad", 0>> when its text is no date, and           *)
(* <<"date", d>> for the date of day d.  new Date(text) is midnight of     *)
(* that day, or an invalid date; the current time is any time of day.      *)
(***************************************************************************)
MaxDay    == 3
DayLength == 2
NaN       == -1

DateFields == {<<"none", 0>>, <<"bad", 0>>} \cup {<<"date", d>> : d \in 1..MaxDay}
Times      == 0..((MaxDay + 1) * DayLength)
Statuses   == {"unknown", "upcoming", "ongoing", "concluded"}

\* if (tournamentInfo.dates.end): null is falsy, a non-empty string is not.
Truthy(f) == f[1] # "none"

\* new Date(text)
ParseDate(f) == IF f[1] = "date" THEN f[2] * DayLength ELSE NaN

\* a < b on dates: false when either side is an invalid date.
DateLess(a, b) == a # NaN /\ b # NaN /\ a < b

\* fetchTournamentByName, step 2.
TournamentStatus(start, end, now) ==
  IF Truthy(end)
  THEN IF DateLess(ParseDate(end), now) THEN "concluded" ELSE "ongoing"
  ELSE IF Truthy(start)
       THEN IF DateLess(now, ParseDate(start)) THEN "upcoming" ELSE "ongoing"
       ELSE "unknown"

StartFirst(start, end, now) ==
  IF Truthy(start)
  THEN IF DateLess(now, ParseDate(start)) THEN "upcoming" ELSE "ongoing"
  ELSE IF Truthy(end)
       THEN IF DateLess(ParseDate(end), now) THEN "concluded" ELSE "ongoing"
       ELSE "unknown"

\* GET /api/tournament/:tournamentName/status
RouteStatus(start, end, now) ==
  IF Truthy(end)
  THEN IF DateLess(ParseDate(end), now) THEN "concluded" ELSE "ongoing"
  ELSE IF Truthy(start)
       THEN IF DateLess(now, ParseDate(start)) THEN "upcoming" ELSE "ongoing"
       ELSE "unknown"

StatInit ==
  /\ stPc     = "idle"
  /\ stStart  = <<"none", 0>>
  /\ stEnd    = <<"none", 0>>
  /\ stNow    = 0
  /\ stStatus = "unknown"
  /\ stBy     = "none"

\* The status of a tournament with dates start and end is computed at time now.
ComputeStatus(start, end, now) ==
  /\ UNCHANGED nonStatVars
  /\ stPc = "idle"
  /\ stPc' = "done"
  /\ stStart' = start
  /\ stEnd' = end
  /\ stNow' = now
  /\ stStatus' = TournamentStatus(start, end, now)
  /\ stBy' = "fetchTournamentByName"

\* The status route computes the status of a tournament it found.
StatusRoute(start, end, now) ==
  /\ UNCHANGED nonStatVars
  /\ stPc = "idle"
  /\ stPc' = "done"
  /\ stStart' = start
  /\ stEnd' = end
  /\ stNow' = now
  /\ stStatus' = RouteStatus(start, end, now)
  /\ stBy' = "route"

StatNext ==
  \/ \E start \in DateFields, end \in DateFields, now \in Times :
       ComputeStatus(start, end, now)
  \/ \E start \in DateFields, end \in DateFields, now \in Times :
       StatusRoute(start, end, now)

(***************************************************************************)
(* fetchTournamentByName.                                                  *)
(*                                                                         *)
(* Each step awaits one sub-fetch, which catches its own errors.  A request*)
(* answered with a 429 never settles (see ThrottledNeverSettles): the step *)
(* and the invocation then wait for ever.                                  *)
(***************************************************************************)
NAggs == 2

Aggs == 1..NAggs

\* The limiter of the first request of a step.
StepFirstClass(p) ==
  CASE p = "resolve" -> LimiterOf("intensive")
    [] p = "teams"   -> LimiterOf("lpdb")
    [] OTHER         -> LimiterOf("standard")

\* The limiters a step may use.
StepClasses(p) ==
  CASE p = "resolve" -> {LimiterOf("intensive"), LimiterOf("standard")}
    [] p = "teams"   -> {LimiterOf("lpdb"), LimiterOf("standard"), LimiterOf("intensive")}
    [] p = "matches" -> {LimiterOf("standard"), LimiterOf("intensive"), LimiterOf("lpdb")}
    [] p \in {"results", "brackets"} -> {LimiterOf("standard"), LimiterOf("intensive")}
    [] OTHER         -> {}

\* The statuses step 2 can compute from a tournament's dates and the clock.
ComputedStatuses ==
  {TournamentStatus(start, end, now) :
     start \in DateFields, end \in DateFields, now \in Times}

AggActive(t) == aggPc[t] \notin {"idle", "returned"}

\* tournament: null, players: [], matches: [], brackets: null, results: null
EmptyRecord ==
  [tournament |-> "null", players |-> FALSE, matches |-> FALSE,
   brackets |-> "null", results |-> "null"]

AggInit ==
  /\ aggPc      = [t \in Aggs |-> "idle"]
  /\ aggStatus  = [t \in Aggs |-> "unknown"]
  /\ aggTeams   = [t \in Aggs |-> FALSE]
  /\ aggRemote  = [t \in Aggs |-> FALSE]
  /\ overlapped = [t \in Aggs |-> FALSE]
  /\ aggSteps   = [t \in Aggs |-> <<>>]
  /\ aggRecord  = [t \in Aggs |-> EmptyRecord]

\* Invocation t starts step p.
StartStep(t, p) ==
  /\ aggPc' = [aggPc EXCEPT ![t] = p]
  /\ aggSteps' = [aggSteps EXCEPT ![t] = Append(@, p)]

\* Invocation t returns tournamentData.
Return(t) ==
  /\ aggPc' = [aggPc EXCEPT ![t] = "returned"]
  /\ UNCHANGED aggSteps

AggStartGuarded(t) ==
  /\ UNCHANGED nonAggVars
  /\ aggPc[t] = "idle"
  /\ overlapped' = [overlapped EXCEPT ![t] = \E u \in Aggs \ {t} : AggActive(u)]
  /\ IF \E u \in Aggs \ {t} : AggActive(u)
     THEN /\ aggPc' = [aggPc EXCEPT ![t] = "returned"]
          /\ UNCHANGED aggRemote
     ELSE /\ aggPc' = [aggPc EXCEPT ![t] = "resolve"]
          /\ aggRemote' = [aggRemote EXCEPT ![t] = TRUE]
  /\ UNCHANGED <<aggStatus, aggTeams, aggSteps, aggRecord, jammed>>

\* A route calls fetchTournamentByName: it builds the empty record and calls
\* fetchTournamentDetails, which asks for the first direct lookup.
AggStart(t) ==
  /\ UNCHANGED nonAggVars
  /\ aggPc[t] = "idle"
  /\ overlapped' = [overlapped EXCEPT ![t] = \E u \in Aggs \ {t} : AggActive(u)]
  /\ aggPc' = [aggPc EXCEPT ![t] = "resolve"]
  /\ aggRemote' = [aggRemote EXCEPT ![t] = TRUE]
  /\ UNCHANGED <<aggStatus, aggTeams, aggSteps, aggRecord, jammed>>

GoOnAnyway(found) == TRUE

\* if (!tournamentData.tournament) return tournamentData;
GoOn(found) == found

\* fetchTournamentDetails returned: a tournament with its parsed dates, or
\* null.  With a tournament the status is computed and the teams step starts.
AggResolve(t, found, status) ==
  /\ UNCHANGED nonAggVars
  /\ aggPc[t] = "resolve"
  /\ ~jammed[StepFirstClass("resolve")]
  /\ aggRecord' = [aggRecord EXCEPT ![t].tournament = IF found THEN "found" ELSE "null"]
  /\ IF GoOn(found)
     THEN /\ aggStatus' = [aggStatus EXCEPT ![t] = status]
          /\ StartStep(t, "teams")
     ELSE /\ Return(t)
          /\ UNCHANGED aggStatus
  /\ UNCHANGED <<aggTeams, aggRemote, overlapped, jammed>>

\* fetchTournamentTeamsImproved returned its teams, some or none: the matches
\* step starts.
AggTeamsDone(t, some) ==
  /\ UNCHANGED nonAggVars
  /\ aggPc[t] = "teams"
  /\ ~jammed[StepFirstClass("teams")]
  /\ aggTeams' = [aggTeams EXCEPT ![t] = some]
  /\ StartStep(t, "matches")
  /\ UNCHANGED <<aggStatus, aggRemote, overlapped, aggRecord, jammed>>

AlwaysBrackets(status) == "brackets"

\* if (tournamentData.status === 'concluded') results else brackets
FifthStep(status) == IF status = "concluded" THEN "results" ELSE "brackets"

\* fetchTournamentMatchesDetailed returned its matches, some or none: results
\* for a concluded tournament, brackets otherwise.
AggMatchesDone(t, some) ==
  /\ UNCHANGED nonAggVars
  /\ aggPc[t] = "matches"
  /\ ~jammed[StepFirstClass("matches")]
  /\ aggRecord' = [aggRecord EXCEPT ![t].matches = some]
  /\ StartStep(t, FifthStep(aggStatus[t]))
  /\ UNCHANGED <<aggStatus, aggTeams, aggRemote, overlapped, jammed>>

\* The results or brackets step returned its list.  With teams the players
\* step starts; without, the record is returned.
AggLastDone(t) ==
  /\ UNCHANGED nonAggVars
  /\ aggPc[t] \in {"results", "brackets"}
  /\ ~jammed[StepFirstClass(aggPc[t])]
  /\ aggRecord' = [aggRecord EXCEPT ![t] =
                     IF aggPc[t] = "results"
                     THEN [@ EXCEPT !.results = "list"]
                     ELSE [@ EXCEPT !.brackets = "list"]]
  /\ IF aggTeams[t] THEN StartStep(t, "players") ELSE Return(t)
  /\ UNCHANGED <<aggStatus, aggTeams, aggRemote, overlapped, jammed>>

\* fetchTournamentPlayers returned: every roster is empty, so it asked for
\* nothing and its list is empty.  The record is returned.
AggPlayersDone(t) ==
  /\ UNCHANGED nonAggVars
  /\ aggPc[t] = "players"
  /\ aggRecord' = [aggRecord EXCEPT ![t].players = FALSE]
  /\ Return(t)
  /\ UNCHANGED <<aggStatus, aggTeams, aggRemote, overlapped, jammed>>

\* A request of the current step, of class c, is answered with a 429.
AggThrottled(t, c) ==
  /\ UNCHANGED nonAggVars
  /\ AggActive(t)
  /\ c \in StepClasses(aggPc[t])
  /\ ~jammed[c]
  /\ jammed' = [jammed EXCEPT ![c] = TRUE]
  /\ aggPc' = [aggPc EXCEPT ![t] = "hung"]
  /\ UNCHANGED <<aggStatus, aggTeams, aggRemote, overlapped, aggSteps, aggRecord>>

AggNext ==
  \/ \E t \in Aggs : AggStart(t)
  \/ \E t \in Aggs, found \in BOOLEAN, status \in ComputedStatuses :
       AggResolve(t, found, status)
  \/ \E t \in Aggs, some \in BOOLEAN : AggTeamsDone(t, some)
  \/ \E t \in Aggs, some \in BOOLEAN : AggMatchesDone(t, some)
  \/ \E t \in Aggs : AggLastDone(t)
  \/ \E t \in Aggs : AggPlayersDone(t)
  \/ \E t \in Aggs, c \in Classes : AggThrottled(t, c)

(***************************************************************************)
(* fetchTeams and fetchPlayers.                                            *)
(*                                                                         *)
(* A string is the sequence of its characters.  A row is a record; its     *)
(* category field is there only when hasCategory is TRUE.                  *)
(***************************************************************************)
MaxRows == 2
NRowIds == 2

RowIds     == 1..NRowIds
FetchKinds == {"teams", "players", "tournaments", "matches"}
\* Two of the games of this.games, and one that is not among them.
Games           == {"dota2", "counterstrike", "chess"}
ConfiguredGames == {"dota2", "counterstrike"}
RowLists == UNION {[1..n -> RowIds] : n \in 1..MaxRows}

Active   == <<"A", "c", "t", "i", "v", "e">>
Inactive == <<"I", "n", "a", "c", "t", "i", "v", "e">>
Retired  == <<"R", "e", "t", "i", "r", "e", "d">>
NoString == <<>>

\* this.games[game].categories.teams / .players / .tournaments
Categories(kind) ==
  CASE kind = "teams" ->
         <<<<"C", "a", "t", "e", "g", "o", "r", "y", ":", "T", "e", "a", "m", "s">>,
           <<"C", "a", "t", "e", "g", "o", "r", "y", ":", "A", "c", "t", "i", "v", "e", "_", "T", "e", "a", "m", "s">>,
           <<"C", "a", "t", "e", "g", "o", "r", "y", ":", "I", "n", "a", "c", "t", "i", "v", "e", "_", "T", "e", "a", "m", "s">>>>
    [] kind = "players" ->
         <<<<"C", "a", "t", "e", "g", "o", "r", "y", ":", "P", "l", "a", "y", "e", "r", "s">>,
           <<"C", "a", "t", "e", "g", "o", "r", "y", ":", "A", "c", "t", "i", "v", "e", "_", "P", "l", "a", "y", "e", "r", "s">>,
           <<"C", "a", "t", "e", "g", "o", "r", "y", ":", "R", "e", "t", "i", "r", "e", "d", "_", "P", "l", "a", "y", "e", "r", "s">>>>
    [] OTHER ->
         <<<<"C", "a", "t", "e", "g", "o", "r", "y", ":", "T", "o", "u", "r", "n", "a", "m", "e", "n", "t", "s">>,
           <<"C", "a", "t", "e", "g", "o", "r", "y", ":", "P", "r", "e", "m", "i", "e", "r", "_", "T", "o", "u", "r", "n", "a", "m", "e", "n", "t", "s">>,
           <<"C", "a", "t", "e", "g", "o", "r", "y", ":", "M", "a", "j", "o", "r", "_", "T", "o", "u", "r", "n", "a", "m", "e", "n", "t", "s">>>>

\* String.prototype.includes
Includes(hay, needle) ==
  \E i \in 1..(Len(hay) - Len(needle) + 1) :
    SubSeq(hay, i, i + Len(needle) - 1) = needle

\* fetchFromLPDB's items: id, name, game, data, liquipedia_url.
LpdbItems(rows) ==
  [i \in 1..Len(rows) |-> [id |-> rows[i], hasCategory |-> FALSE, category |-> NoString]]

\* fetchFromCategoriesFallback's items: ..., category: primaryCategory;
\* fetchRecentMatchChanges' items: id, title, game, timestamp, type, url.
FallbackItems(kind, rows) ==
  [i \in 1..Len(rows) |->
     IF kind = "matches"
     THEN [id |-> rows[i], hasCategory |-> FALSE, category |-> NoString]
     ELSE [id |-> rows[i], hasCategory |-> TRUE, category |-> Categories(kind)[1]]]

\* The status enhanceTeamData / enhancePlayerData give a row with a category.
RowStatus(kind, cat) ==
  IF Includes(cat, Active) THEN "active"
  ELSE IF kind = "teams"
       THEN IF Includes(cat, Inactive) THEN "inactive" ELSE "unknown"
       ELSE IF Includes(cat, Retired) THEN "retired" ELSE "unknown"

\* team.category.includes(...) throws a TypeError on a row without category.
EnhanceFails(list) == \E i \in 1..Len(list) : ~list[i].hasCategory

Enhance(kind, list) ==
  [i \in 1..Len(list) |->
     [id |-> list[i].id, status |-> RowStatus(kind, list[i].category)]]

\* fetchTournaments and fetchRecentMatches return the list as it is.
Plain(list) ==
  [i \in 1..Len(list) |-> [id |-> list[i].id, status |-> "absent"]]

\* enhance...Data(list), and the catch of fetchTeams / fetchPlayers.
Returned(kind, list) ==
  IF kind \in {"teams", "players"}
  THEN IF EnhanceFails(list) THEN <<>> ELSE Enhance(kind, list)
  ELSE Plain(list)

FallbackAlways(kind, g, out) == TRUE

\* if (list.length === 0) { const gameConfig = this.games[game];
\* if (gameConfig) ... }; fetchRecentMatches does not look at this.games.
NeedsFallback(kind, g, out) ==
  out # "rows" /\ (kind = "matches" \/ g \in ConfiguredGames)

FetchInit ==
  /\ fKind     = "teams"
  /\ fGame     = "dota2"
  /\ fPc       = "idle"
  /\ fLpdb     = "none"
  /\ fFallback = "none"
  /\ fList     = <<>>
  /\ fStage    = "none"
  /\ fResult   = <<>>

\* fetchTeams(g) or fetchPlayers(g) is called: fetchFromLPDB asks for its rows.
FetchStart(kind, g) ==
  /\ UNCHANGED nonFetchVars
  /\ fPc = "idle"
  /\ fKind' = kind
  /\ fGame' = g
  /\ fPc' = "lpdb"
  /\ UNCHANGED <<fLpdb, fFallback, fList, fStage, fResult, jammed>>

\* The LPDB request settles: with rows, the list is enhanced and returned;
\* without, the fallback is asked if the game is configured.
FetchLpdb(out, rows) ==
  /\ UNCHANGED nonFetchVars
  /\ fPc = "lpdb"
  /\ ~jammed[LimiterOf("lpdb")]
  /\ IF out = "throttled"
     THEN /\ jammed' = [jammed EXCEPT ![LimiterOf("lpdb")] = TRUE]
          /\ UNCHANGED <<fPc, fLpdb, fList, fStage, fResult>>
     ELSE /\ UNCHANGED jammed
          /\ fLpdb' = out
          /\ fList' = IF out = "rows" THEN LpdbItems(rows) ELSE <<>>
          /\ fStage' = IF out = "rows" THEN "lpdb" ELSE fStage
          /\ IF NeedsFallback(fKind, fGame, out)
             THEN /\ fPc' = "fallback"
                  /\ UNCHANGED fResult
             ELSE /\ fPc' = "returned"
                  /\ fResult' = Returned(fKind, IF out = "rows" THEN LpdbItems(rows) ELSE <<>>)
  /\ UNCHANGED <<fKind, fGame, fFallback>>

\* The fallback request settles: its list is enhanced and returned.
FetchFallback(out, rows) ==
  /\ UNCHANGED nonFetchVars
  /\ fPc = "fallback"
  /\ ~jammed[LimiterOf("standard")]
  /\ IF out = "throttled"
     THEN /\ jammed' = [jammed EXCEPT ![LimiterOf("standard")] = TRUE]
          /\ UNCHANGED <<fPc, fFallback, fList, fStage, fResult>>
     ELSE /\ UNCHANGED jammed
          /\ fFallback' = out
          /\ fStage' = "fallback"
          /\ fList' = IF out = "rows" THEN FallbackItems(fKind, rows) ELSE <<>>
          /\ fResult' = Returned(fKind, IF out = "rows" THEN FallbackItems(fKind, rows) ELSE <<>>)
          /\ fPc' = "returned"
  /\ UNCHANGED <<fKind, fGame, fLpdb>>

FetchNext ==
  \/ \E kind \in FetchKinds, g \in Games : FetchStart(kind, g)
  \/ \E out \in Outcomes, rows \in RowLists : FetchLpdb(out, rows)
  \/ \E out \in Outcomes, rows \in RowLists : FetchFallback(out, rows)

(***************************************************************************)
(* fetchTournamentDetails and searchForTournament.                         *)
(*                                                                         *)
(* A name is the sequence of its characters.  The remote wiki has a page   *)
(* for the titles of rPages and for no other.                              *)
(***************************************************************************)
NameA == <<"C", "C", "T", " ", "S", "e", "a", "s", "o", "n", " ", "3", " ", "O", "c", "e", "a", "n", "i", "a", " ", "S", "e", "r", "i", "e", "s", " ", "2">>
NameB == <<"E", "S", "L", " ", "O", "n", "e">>
NameC == <<"M", "a", "j", "o", "r">>
NameD == <<"T", "I", " ", "1", "2">>
Names == {NameA, NameB, NameC, NameD}

\* Titles the remote wiki may have a page for.
SeriesPage == <<"C", "C", "T", " ", "S", "e", "a", "s", "o", "n", " ", "3", " ", "O", "c", "e", "a", "n", "i", "a", " ", "S", "e", "r", "i", "e", "s">>
ShortPage  == <<"T", "I">>
OceaniaPage == <<"C", "C", "T", " ", "O", "c", "e", "a", "n", "i", "a">>
CupPage    == <<"O", "c", "e", "a", "n", "i", "a", " ", "c", "c", "t">>
Titles == {SeriesPage, ShortPage, NameB, NameC, OceaniaPage, CupPage}

Season == <<"S", "e", "a", "s", "o", "n">>
Series == <<"S", "e", "r", "i", "e", "s">>
Cct == <<"c", "c", "t">>
Oceania == <<"o", "c", "e", "a", "n", "i", "a">>

\* Titles a full-text search may give back.
MaxHits == 2
SearchTitles == {OceaniaPage, CupPage, NameB}
HitLists == UNION {[1..n -> SearchTitles] : n \in 0..MaxHits}

Digits == {"0", "1", "2", "3", "4", "5", "6", "7", "8", "9"}

\* The end of the run of digits that starts at position i of s.
DigitRunEnd(s, i) ==
  CHOOSE j \in i..Len(s) :
    /\ \A m \in i..j : s[m] \in Digits
    /\ j = Len(s) \/ s[j + 1] \notin Digits

RemoveRange(s, a, b) == SubSeq(s, 1, a - 1) \o SubSeq(s, b + 1, Len(s))

SetMin(S) == CHOOSE x \in S : \A y \in S : x <= y

\* s.replace(/\d+/, '')
StripNumber(s) ==
  LET P == {i \in 1..Len(s) : s[i] \in Digits} IN
  IF P = {} THEN s ELSE RemoveRange(s, SetMin(P), DigitRunEnd(s, SetMin(P)))

\* s.replace(/Season \d+/, '') and s.replace(/Series \d+/, ''), w the word
StripWordNumber(s, w) ==
  LET P == {i \in 1..Len(s) :
              /\ i + Len(w) + 1 <= Len(s)
              /\ SubSeq(s, i, i + Len(w) - 1) = w
              /\ s[i + Len(w)] = " "
              /\ s[i + Len(w) + 1] \in Digits} IN
  IF P = {} THEN s
  ELSE RemoveRange(s, SetMin(P), DigitRunEnd(s, SetMin(P) + Len(w) + 1))

\* s.trim()
Trim(s) ==
  LET P == {i \in 1..Len(s) : s[i] # " "} IN
  IF P = {} THEN <<>>
  ELSE SubSeq(s, SetMin(P), CHOOSE j \in P : \A m \in P : m <= j)

KeepAll(s, n) == s

\* s.split(' ').slice(0, -n).join(' ')
DropLastWords(s, n) ==
  LET SP == {i \in 1..Len(s) : s[i] = " "} IN
  IF Cardinality(SP) < n THEN <<>>
  ELSE SubSeq(s, 1, (CHOOSE q \in SP : Cardinality({x \in SP : x >= q}) = n) - 1)

\* tournamentVariations
Variations(name) ==
  << name,
     Trim(StripWordNumber(name, Season)),
     Trim(StripWordNumber(name, Series)),
     Trim(StripNumber(name)),
     DropLastWords(name, 2),
     DropLastWords(name, 1) >>

NVariations == 6

\* String.prototype.toLowerCase, one character
LowerChar(c) ==
  CASE c = "A" -> "a"
    [] c = "B" -> "b"
    [] c = "C" -> "c"
    [] c = "D" -> "d"
    [] c = "E" -> "e"
    [] c = "F" -> "f"
    [] c = "G" -> "g"
    [] c = "H" -> "h"
    [] c = "I" -> "i"
    [] c = "J" -> "j"
    [] c = "K" -> "k"
    [] c = "L" -> "l"
    [] c = "M" -> "m"
    [] c = "N" -> "n"
    [] c = "O" -> "o"
    [] c = "P" -> "p"
    [] c = "Q" -> "q"
    [] c = "R" -> "r"
    [] c = "S" -> "s"
    [] c = "T" -> "t"
    [] c = "U" -> "u"
    [] c = "V" -> "v"
    [] c = "W" -> "w"
    [] c = "X" -> "x"
    [] c = "Y" -> "y"
    [] c = "Z" -> "z"
    [] OTHER -> c

Lower(s) == [i \in 1..Len(s) |-> LowerChar(s[i])]

NoNextVariation(name, i) == 0

\* if (!variation) continue: the next variation that is looked up after the
\* i-th, 0 when there is none.
NextVariation(name, i) ==
  LET R == {j \in (i + 1)..NVariations : Variations(name)[j] # <<>>} IN
  IF R = {} THEN 0 ELSE SetMin(R)

\* title.includes('cct') && title.includes('oceania') &&
\* originalLower.includes('cct') && originalLower.includes('oceania')
LooksLikeOurs(title, name) ==
  /\ Includes(Lower(title), Lower(Cct))
  /\ Includes(Lower(title), Lower(Oceania))
  /\ Includes(Lower(name), Lower(Cct))
  /\ Includes(Lower(name), Lower(Oceania))

Lookup(title) == [class |-> LimiterOf("intensive"), kind |-> "lookup", page |-> title]

\* makeRequest(url, {list: 'search', ...}): the standard class by default.
Search(name) == [class |-> LimiterOf("standard"), kind |-> "search", page |-> name]

ResInit ==
  /\ rPc       = "idle"
  /\ rName     = NameA
  /\ rPages    = {}
  /\ rIdx      = 0
  /\ rRequests = <<>>
  /\ rResult   = "pending"
  /\ rFound    = <<>>
  /\ rVia      = 0
  /\ rFault    = FALSE
  /\ rHits     = <<>>
  /\ rHit      = 0

\* fetchTournamentDetails(name, game) is called on a wiki with the pages of
\* pages: it looks up the raw name.
ResStart(name, pages) ==
  /\ UNCHANGED nonResVars
  /\ rPc = "idle"
  /\ rName' = name
  /\ rPages' = pages
  /\ rIdx' = 1
  /\ rRequests' = <<Lookup(Variations(name)[1])>>
  /\ rPc' = "lookup"
  /\ UNCHANGED <<rResult, rFound, rVia, rFault, rHits, rHit, jammed>>

\* The two parse requests of the variation settle: answered, failed, or
\* throttled.
ResLookup(out) ==
  /\ UNCHANGED nonResVars
  /\ rPc = "lookup"
  /\ ~jammed[LimiterOf("intensive")]
  /\ CASE out = "throttled" ->
            /\ jammed' = [jammed EXCEPT ![LimiterOf("intensive")] = TRUE]
            /\ UNCHANGED <<rPc, rIdx, rRequests, rResult, rFound, rVia, rFault>>
       [] out = "error" ->
            /\ rPc' = "done"
            /\ rResult' = "null"
            /\ rFault' = TRUE
            /\ UNCHANGED <<rIdx, rRequests, rFound, rVia, jammed>>
       [] out = "answer" /\ Variations(rName)[rIdx] \in rPages ->
            /\ rPc' = "done"
            /\ rResult' = "record"
            /\ rFound' = Variations(rName)[rIdx]
            /\ rVia' = rIdx
            /\ UNCHANGED <<rIdx, rRequests, rFault, jammed>>
       [] out = "answer" /\ Variations(rName)[rIdx] \notin rPages ->
            /\ IF NextVariation(rName, rIdx) # 0
               THEN /\ rIdx' = NextVariation(rName, rIdx)
                    /\ rRequests' =
                         Append(rRequests, Lookup(Variations(rName)[NextVariation(rName, rIdx)]))
                    /\ UNCHANGED rPc
               ELSE /\ rPc' = "search"
                    /\ rRequests' = Append(rRequests, Search(rName))
                    /\ UNCHANGED rIdx
            /\ UNCHANGED <<rResult, rFound, rVia, rFault, jammed>>
  /\ UNCHANGED <<rName, rPages, rHits, rHit>>

FirstHit(hits, name, after) ==
  IF after < Len(hits) THEN after + 1 ELSE 0

\* for (const result of searchResults) { if (title.includes(...) && ...) }:
\* the first result after the one of index after whose page is asked for,
\* 0 when there is none.
NextHit(hits, name, after) ==
  LET R == {j \in (after + 1)..Len(hits) : LooksLikeOurs(hits[j], name)} IN
  IF R = {} THEN 0 ELSE SetMin(R)

\* The loop of searchForTournament goes on after the result of index after:
\* it asks for the page of the next result that looks like the name, or
\* falls out of the loop and returns null.
TryNextHit(hits, after) ==
  IF NextHit(hits, rName, after) # 0
  THEN /\ rHit' = NextHit(hits, rName, after)
       /\ rRequests' = Append(rRequests, Lookup(hits[NextHit(hits, rName, after)]))
       /\ rPc' = "hit"
       /\ UNCHANGED rResult
  ELSE /\ rPc' = "done"
       /\ rResult' = "null"
       /\ UNCHANGED <<rRequests, rHit>>

\* The search request settles: answered with the titles of hits, failed, or
\* throttled.
ResSearch(out, hits) ==
  /\ UNCHANGED nonResVars
  /\ rPc = "search"
  /\ ~jammed[LimiterOf("standard")]
  /\ CASE out = "throttled" ->
            /\ jammed' = [jammed EXCEPT ![LimiterOf("standard")] = TRUE]
            /\ UNCHANGED <<rPc, rRequests, rResult, rFault, rHits, rHit>>
       [] out = "error" ->
            /\ rPc' = "done"
            /\ rResult' = "null"
            /\ rFault' = TRUE
            /\ UNCHANGED <<rRequests, rHits, rHit, jammed>>
       [] out = "answer" ->
            /\ rHits' = hits
            /\ TryNextHit(hits, 0)
            /\ UNCHANGED <<rFault, jammed>>
  /\ UNCHANGED <<rName, rPages, rIdx, rFound, rVia>>

\* The parse request for the title of a search result settles: answered
\* (with wikitext when the wiki has the page), failed, or throttled.
ResHit(out) ==
  /\ UNCHANGED nonResVars
  /\ rPc = "hit"
  /\ ~jammed[LimiterOf("intensive")]
  /\ CASE out = "throttled" ->
            /\ jammed' = [jammed EXCEPT ![LimiterOf("intensive")] = TRUE]
            /\ UNCHANGED <<rPc, rRequests, rResult, rFound, rVia, rFault, rHit>>
       [] out = "error" ->
            /\ rPc' = "done"
            /\ rResult' = "null"
            /\ rFault' = TRUE
            /\ UNCHANGED <<rRequests, rFound, rVia, rHit, jammed>>
       [] out = "answer" /\ rHits[rHit] \in rPages ->
            /\ rPc' = "done"
            /\ rResult' = "record"
            /\ rFound' = rHits[rHit]
            /\ rVia' = NVariations + 1
            /\ UNCHANGED <<rRequests, rFault, rHit, jammed>>
       [] out = "answer" /\ rHits[rHit] \notin rPages ->
            /\ TryNextHit(rHits, rHit)
            /\ UNCHANGED <<rFound, rVia, rFault, jammed>>
  /\ UNCHANGED <<rName, rPages, rIdx, rHits>>

ResNext ==
  \/ \E name \in Names, pages \in SUBSET Titles : ResStart(name, pages)
  \/ \E out \in {"answer", "error", "throttled"} : ResLookup(out)
  \/ \E out \in {"answer", "error", "throttled"}, hits \in HitLists : ResSearch(out, hits)
  \/ \E out \in {"answer", "error", "throttled"} : ResHit(out)

(***************************************************************************)
(* The participants of a tournament: parseTournamentWikitext, then         *)
(* fetchTournamentTeamsImproved, which is handed the participants array    *)
(* itself as participantNames.                                             *)
(***************************************************************************)
MaxNames     == 1
MaxTeamPages == 1
TeamPageCap  == 3
TeamCap      == 16
PlayerTeamCap == 8
RosterCap    == 5

\* Names of teams as sequences of characters: two that pass the filter of
\* fetchTournamentTeamsImproved, one of one character, one with "{{"
TeamNames == {<<"A", "b">>, <<"C", "d">>, <<"X">>, <<"{", "{", "T">>}
NameLists == UNION {[1..n -> TeamNames] : n \in 0..MaxNames}

\* A page that names more teams than fetchTournamentTeamsImproved returns
ManyNames == [i \in 1..(TeamCap + 1) |-> <<"T">> \o [j \in 1..i |-> "x"]]

RECURSIVE Flatten(_)
Flatten(lists) ==
  IF lists = <<>> THEN <<>> ELSE Head(lists) \o Flatten(Tail(lists))


NoDuplicates(list) ==
  \A i, j \in 1..Len(list) : list[i] = list[j] => i = j

\* [...new Set(list)]: the first occurrence of each name, in order
RECURSIVE Unique(_)
Unique(list) ==
  IF list = <<>> THEN <<>>
  ELSE LET init == Unique(SubSeq(list, 1, Len(list) - 1))
           last == list[Len(list)]
       IN IF \E i \in 1..Len(init) : init[i] = last THEN init ELSE Append(init, last)

\* participantNames.push(...list): participantNames is the array of the
\* tournament record, not a copy of it
Pushed(names, list) == names \o list

PartInit ==
  /\ pPc = "idle"
  /\ pParticipants = <<>>
  /\ pPages = 0
  /\ pTeams = <<>>
  /\ pPlayers = <<>>
  /\ pAsked = 0

\* fetchTournamentDetails returned a tournament whose markup names the teams
\* of list; the teams step asks for the LPDB participants.
PartResolve(list) ==
  /\ UNCHANGED nonPartVars
  /\ pPc = "idle"
  /\ pParticipants' = Unique(list)
  /\ pPc' = "lpdb"
  /\ UNCHANGED <<pPages, pTeams, pPlayers, pAsked, jammed>>

Unfiltered(team) == TRUE

\* team => team && team.length > 1 && !team.includes('{{')
Proper(team) == team # <<>> /\ Len(team) > 1 /\ ~Includes(team, <<"{", "{">>)

\* [...new Set(participantNames)].filter(...).slice(0, 16)
uniqueTeams(participantNames) ==
  LET set  == Unique(participantNames)
      kept == {i \in 1..Len(set) : Proper(set[i])}
      RECURSIVE InOrder(_)
      InOrder(S) ==
        IF S = {} THEN <<>>
        ELSE <<set[SetMin(S)]>> \o InOrder(S \ {SetMin(S)})
      all  == InOrder(kept)
  IN SubSeq(all, 1, Min(Len(all), TeamCap))

StaffedTeam(teamName) == [name |-> teamName, roster |-> <<teamName>>]

\* const basicTeam = { id, name: teamName, ..., roster: [], ... }
basicTeam(teamName) == [name |-> teamName, roster |-> <<>>]

\* One basic team for each of uniqueTeams; return teams
Finish ==
  /\ pTeams' = [i \in 1..Len(uniqueTeams(pParticipants')) |->
                  basicTeam(uniqueTeams(pParticipants')[i])]
  /\ pPc' = "returned"

\* The catch of fetchTournamentTeamsImproved: return []
Fail ==
  /\ pTeams' = <<>>
  /\ pPc' = "returned"

\* The LPDB request settles: the names of its participants row are pushed.
PartLpdb(out, list) ==
  /\ UNCHANGED nonPartVars
  /\ pPc = "lpdb"
  /\ ~jammed[LimiterOf("lpdb")]
  /\ CASE out = "throttled" ->
            /\ jammed' = [jammed EXCEPT ![LimiterOf("lpdb")] = TRUE]
            /\ UNCHANGED <<pPc, pParticipants, pPages, pTeams, pPlayers, pAsked>>
       [] out = "error" ->
            /\ Fail
            /\ UNCHANGED <<pParticipants, pPages, pPlayers, pAsked, jammed>>
       [] out = "answer" ->
            /\ pParticipants' = Pushed(pParticipants, list)
            /\ pPc' = "subpages"
            /\ UNCHANGED <<pPages, pTeams, pPlayers, pAsked, jammed>>

\* The subpage list settles: n of the subpages are team pages.
PartSubpages(out, n) ==
  /\ UNCHANGED nonPartVars
  /\ pPc = "subpages"
  /\ ~jammed[LimiterOf("standard")]
  /\ CASE out = "throttled" ->
            /\ jammed' = [jammed EXCEPT ![LimiterOf("standard")] = TRUE]
            /\ UNCHANGED <<pPc, pParticipants, pPages, pTeams, pPlayers, pAsked>>
       [] out = "error" ->
            /\ Fail
            /\ UNCHANGED <<pParticipants, pPages, pPlayers, pAsked, jammed>>
       [] out = "answer" ->
            /\ UNCHANGED <<pParticipants, pPlayers, pAsked, jammed>>
            /\ pPages' = Min(n, TeamPageCap)
            /\ IF n = 0 THEN Finish ELSE pPc' = "page" /\ UNCHANGED pTeams

\* A team page settles: the names of its team templates are pushed; a
\* failure is logged and the loop goes on.
PartPage(out, list) ==
  /\ UNCHANGED nonPartVars
  /\ pPc = "page"
  /\ ~jammed[LimiterOf("intensive")]
  /\ IF out = "throttled"
     THEN /\ jammed' = [jammed EXCEPT ![LimiterOf("intensive")] = TRUE]
          /\ UNCHANGED <<pPc, pParticipants, pPages, pTeams, pPlayers, pAsked>>
     ELSE /\ UNCHANGED <<jammed, pPlayers, pAsked>>
          /\ pParticipants' =
               IF out = "answer" THEN Pushed(pParticipants, list) ELSE pParticipants
          /\ pPages' = pPages - 1
          /\ IF pPages = 1 THEN Finish ELSE UNCHANGED <<pPc, pTeams>>

\* Step 6 of fetchTournamentByName: with teams, fetchTournamentPlayers asks
\* for the page of each of the first players of the roster of each of the
\* first teams and returns the players it was given; without, players stays [].
PartPlayers ==
  /\ UNCHANGED nonPartVars
  /\ pPc = "returned"
  /\ LET teams   == SubSeq(pTeams, 1, Min(Len(pTeams), PlayerTeamCap))
         rosters == Flatten([i \in 1..Len(teams) |->
                      SubSeq(teams[i].roster, 1, Min(Len(teams[i].roster), RosterCap))])
     IN /\ pAsked' = Len(rosters)
        /\ pPlayers' = rosters
  /\ pPc' = "done"
  /\ UNCHANGED <<pParticipants, pPages, pTeams, jammed>>

\* A request of the LPDB step or of the subpage step fails
PartError ==
  \/ \E list \in NameLists : PartLpdb("error", list)
  \/ \E n \in 0..MaxTeamPages : PartSubpages("error", n)

PartNext ==
  \/ \E list \in NameLists \cup {ManyNames} : PartResolve(list)
  \/ PartPlayers
  \/ \E out \in {"answer", "error", "throttled"}, list \in NameLists : PartLpdb(out, list)
  \/ \E out \in {"answer", "error", "throttled"}, n \in 0..MaxTeamPages :
       PartSubpages(out, n)
  \/ \E out \in {"answer", "error", "throttled"}, list \in NameLists : PartPage(out, list)

(***************************************************************************)
(* The markup extractor: parseTournamentWikitext with its two helpers,     *)
(* then extractDataFromHTML.  The wikitext is a record of the labeled      *)
(* entries of the infobox (label -> text after the "=") and the sequence   *)
(* of template blocks of the page; a block is a kind and its "|key=value"  *)
(* fields in markup order, keys without the RxDy prefix and the trailing   *)
(* digits that the patterns skip.  Texts are sequences of characters.      *)
(***************************************************************************)
MaxBlocks  == 2
MaxMissing == 1
MaxHtml    == 1
ParticipantCap == 20

null      == <<"null">>
undefined == <<"undefined">>

Labels ==
  {"prizepool", "sdate", "edate", "country", "organizer", "liquipediatier", "team_number"}

EntryText == <<" ", "7", "x">>

Ab  == <<"A", "b">>
ab  == <<"a", "b">>
Cd  == <<"C", "d">>
TBD == <<"T", "B", "D">>

Block(kind, fields) == [kind |-> kind, fields |-> fields]

Blocks ==
  { Block("Bracket", << <<"team", <<" ">> \o Ab>>, <<"team", Cd>>,
                        <<"score", <<"2", "-", "0">> >>, <<"win", <<"1">> >>,
                        <<"score", <<"1", "-", "2">> >>, <<"win", <<"2">> >> >>),
    Block("Bracket", << <<"team", ab>>, <<"score", <<>> >>, <<"win", <<"1">> >>,
                        <<"score", <<"2", "-", "1">> >>, <<"win", <<" ">> >> >>),
    Block("MatchList", << <<"team", Ab>>, <<"team", TBD>>, <<"team", Cd \o <<" ">> >> >>),
    Block("MatchMaps", << <<"team1", Ab>>, <<"team2", Cd>>,
                          <<"score1", <<"2">> >>, <<"score2", <<"0">> >> >>),
    Block("MatchMaps", << <<"team1", Ab>>, <<"team2", Cd>>, <<"date", <<"5">> >> >>),
    Block("MatchMaps", << <<"team1", Ab>>, <<"score1", <<"2">> >> >>),
    Block("team", << <<"name", ab \o <<" ">> >> >>) }

Entries ==
  UNION {[present -> {EntryText}] :
           present \in {S \in SUBSET Labels : Cardinality(Labels \ S) <= MaxMissing}}

Wikitexts ==
  [entries : Entries, body : UNION {[1..n -> Blocks] : n \in 0..MaxBlocks}]

HtmlScores == {<<"3", "-", "1">>}

\* The texts the two patterns of extractDataFromHTML capture from a page
HtmlContents ==
  [teams  : UNION {[1..n -> {ab, TBD, <<" ", "C", "d">>}] : n \in 0..MaxHtml},
   scores : UNION {[1..n -> HtmlScores] : n \in 0..(MaxHtml + 1)}]

Indices(seq, Test(_)) == {i \in 1..Len(seq) : Test(seq[i])}

\* The elements of seq at the positions of S, in order
RECURSIVE Pick(_, _)
Pick(seq, S) ==
  IF S = {} THEN <<>>
  ELSE <<seq[SetMin(S)]>> \o Pick(seq, S \ {SetMin(S)})

\* parseInt of a text that starts with digits (after blanks), else NaN
ParseInt(text) ==
  LET t    == Trim(text)
      stop == {i \in 1..Len(t) : t[i] \notin Digits}
      run  == IF stop = {} THEN t ELSE SubSeq(t, 1, SetMin(stop) - 1)
  IN IF run = <<>> THEN <<"NaN">> ELSE run

FieldAllOrNothing(wikitext, label) ==
  IF DOMAIN wikitext.entries = Labels THEN Trim(wikitext.entries[label]) ELSE null

\* wikitext.match(/\|\s*label\s*=\s*([^\n|]+)/i), then [1].trim()
Field(wikitext, label) ==
  IF label \in DOMAIN wikitext.entries /\ wikitext.entries[label] # <<>>
  THEN Trim(wikitext.entries[label])
  ELSE null

Scalars(wikitext) ==
  [label \in Labels |->
     IF label = "team_number" /\ Field(wikitext, label) # null
     THEN ParseInt(Field(wikitext, label))
     ELSE Field(wikitext, label)]

\* text.match(/\|...key\d*=([^|\n}]+)/g): the positions of the fields of the
\* key that hold at least one character
Params(fields, key) ==
  Indices(fields, LAMBDA f : f[1] = key /\ f[2] # <<>>)

Named(team) == team # <<>> /\ ~Includes(team, <<"{", "{">>) /\ team # TBD

Teams(fields, key) ==
  LET found == Pick(fields, Params(fields, key))
      names == [i \in 1..Len(found) |-> Trim(found[i][2])]
  IN Pick(names, Indices(names, Named))

OfKind(body, kind) == Indices(body, LAMBDA b : b.kind = kind)

\* bracketMatch[0]: the first bracket block stands for them all
FirstOnly(S) == IF S = {} THEN {} ELSE {SetMin(S)}

extractTeamsFromBrackets(wikitext, participants) ==
  LET body     == wikitext.body
      brackets == Pick(body, FirstOnly(OfKind(body, "Bracket")))
      lists    == Pick(body, OfKind(body, "MatchList"))
  IN Unique(participants
            \o Flatten([i \in 1..Len(brackets) |-> Unique(Teams(brackets[i].fields, "team"))])
            \o Flatten([i \in 1..Len(lists) |-> Teams(lists[i].fields, "team")]))

\* One entry of matches.  A property the code does not set is undefined (0
\* for the two numbers); at is the place in the markup the entry was read
\* from, <<block, field>>, which the code does not keep.
Entry(at) ==
  [round |-> 0, match_id |-> 0, score |-> undefined, winner |-> undefined,
   team1 |-> undefined, team2 |-> undefined, score1 |-> undefined,
   score2 |-> undefined, date |-> undefined, status |-> "undefined",
   source |-> "undefined", html_score |-> undefined, at |-> at]

\* The pairs of one bracket block: the i-th score with the i-th winner
BracketEntries(body, b) ==
  LET fields  == body[b].fields
      scores  == Pick([i \in 1..Len(fields) |-> i], Params(fields, "score"))
      winners == Pick([i \in 1..Len(fields) |-> i], Params(fields, "win"))
      n       == Min(Len(scores), Len(winners))
      score(i)  == Trim(fields[scores[i]][2])
      winner(i) == Trim(fields[winners[i]][2])
      kept    == {i \in 1..n : score(i) # <<>> /\ winner(i) # <<>>}
      all     == [i \in 1..n |->
                    [Entry(<<b, scores[i]>>) EXCEPT
                       !.round = ((i - 1) \div 2) + 1, !.match_id = i,
                       !.score = score(i), !.winner = winner(i),
                       !.status = "completed"]]
  IN Pick(all, kept)

LazyBar(fields) == 0

\* /\{\{MatchMaps[^}]*\|([^}]+)\}\}/: [^}]* is greedy and runs over every
\* bar it can, so the group starts after the last bar of the block
GreedyBar(fields) == Len(fields)

\* The "|key=" fields inside matchMapMatch[1]: those after the bar the group
\* starts behind
Captured(fields) == Indices(fields, LAMBDA f : TRUE) \ (1..GreedyBar(fields))

\* matchContent.match(/\|key=([^|\n}]+)/)
Capture(fields, key) ==
  LET S == Params(fields, key) \cap Captured(fields)
  IN IF S = {} THEN null ELSE Trim(fields[SetMin(S)][2])

MatchMapsEntries(body, b) ==
  LET fields == body[b].fields
      got(key) == Capture(fields, key)
  IN IF got("team1") # null /\ got("team2") # null
     THEN <<[Entry(<<b, 0>>) EXCEPT
               !.team1 = got("team1"), !.team2 = got("team2"),
               !.score1 = got("score1"), !.score2 = got("score2"),
               !.date = got("date"),
               !.status = IF got("score1") # null /\ got("score2") # null
                          THEN "completed" ELSE "scheduled"]>>
     ELSE <<>>

extractMatchesFromBrackets(wikitext) ==
  LET body     == wikitext.body
      brackets == Pick([b \in 1..Len(body) |-> b], FirstOnly(OfKind(body, "Bracket")))
      maps     == Pick([b \in 1..Len(body) |-> b], OfKind(body, "MatchMaps"))
  IN Flatten([i \in 1..Len(brackets) |-> BracketEntries(body, brackets[i])])
     \o Flatten([i \in 1..Len(maps) |-> MatchMapsEntries(body, maps[i])])

\* The {{team|...}} templates of the page, read when nothing else gave a name
TeamTemplates(wikitext) ==
  LET body  == wikitext.body
      found == Pick(body, OfKind(body, "team"))
      names == Unique([i \in 1..Len(found) |-> Trim(found[i].fields[1][2])])
  IN SubSeq(names, 1, Min(Len(names), ParticipantCap))

parseTournamentWikitext(wikitext) ==
  LET participants == extractTeamsFromBrackets(wikitext, <<>>)
  IN [fields  |-> Scalars(wikitext),
      matches |-> extractMatchesFromBrackets(wikitext),
      participants |->
        IF participants = <<>> /\ OfKind(wikitext.body, "team") # {}
        THEN TeamTemplates(wikitext) ELSE participants]

OverScore(match, score) == [match EXCEPT !.score = score]

\* parsedData.matches[index].html_score = score
WithHtmlScore(match, score) == [match EXCEPT !.html_score = score]

extractDataFromHTML(htmlContent, parsedData) ==
  LET trimmed   == [i \in 1..Len(htmlContent.teams) |-> Trim(htmlContent.teams[i])]
      htmlTeams == Pick(trimmed,
                        Indices(trimmed, LAMBDA t : t # <<>> /\ t # TBD /\ Len(t) > 1))
      scores    == htmlContent.scores
      old       == parsedData.matches
  IN [parsedData EXCEPT
        !.participants = IF htmlTeams # <<>> THEN Unique(@ \o htmlTeams) ELSE @,
        !.matches =
          [i \in 1..Max(Len(old), Len(scores)) |->
             IF i > Len(scores) THEN old[i]
             ELSE IF i <= Len(old) THEN WithHtmlScore(old[i], scores[i])
             ELSE [Entry(<<0, 0>>) EXCEPT
                     !.match_id = i, !.score = scores[i],
                     !.source = "html", !.status = "completed"]]]

MarkInit ==
  /\ mPc = "idle"
  /\ mWikitext = [entries |-> <<>>, body |-> <<>>]
  /\ mParsed = parseTournamentWikitext([entries |-> <<>>, body |-> <<>>])
  /\ mBefore = parseTournamentWikitext([entries |-> <<>>, body |-> <<>>])

\* const parsedData = this.parseTournamentWikitext(wikitext, game)
Parse(wikitext) ==
  /\ UNCHANGED nonMarkVars
  /\ mPc = "idle"
  /\ mWikitext' = wikitext
  /\ mParsed' = parseTournamentWikitext(wikitext)
  /\ mBefore' = mBefore
  /\ mPc' = "parsed"

\* if (htmlContent) this.extractDataFromHTML(htmlContent, parsedData)
ExtractHTML(htmlContent) ==
  /\ UNCHANGED nonMarkVars
  /\ mPc = "parsed"
  /\ mBefore' = mParsed
  /\ mParsed' = extractDataFromHTML(htmlContent, mParsed)
  /\ mWikitext' = mWikitext
  /\ mPc' = "extracted"

MarkNext ==
  \/ mPc = "idle" /\ \E wikitext \in Wikitexts : Parse(wikitext)
  \/ mPc = "parsed" /\ \E htmlContent \in HtmlContents : ExtractHTML(htmlContent)

(***************************************************************************)
(* The batch upserts of DatabaseService.  upsertTeams, upsertPlayers and   *)
(* upsertMatches run the same statement on their own table and differ in   *)
(* the columns they copy; one table stands for the three.  A record is     *)
(* its id, whether the id fits the INTEGER column liquipedia_id, its game  *)
(* and the other columns (name).                                           *)
(***************************************************************************)
MaxBatch == 2

Records ==
  [id : {1, 2}, integer : {TRUE}, game : {"dota2"}, name : {"a", "b"}]
    \cup [id : {1}, integer : BOOLEAN, game : {"counterstrike"}, name : {"a"}]

Batches == UNION {[1..n -> Records] : n \in 0..MaxBatch}

NoConflict(rows, record) == {}

\* ON CONFLICT (liquipedia_id, game): the rows the new row collides with
Conflict(rows, record) ==
  {r \in 1..Len(rows) : rows[r].id = record.id /\ rows[r].game = record.game}

\* INSERT INTO ... VALUES (...) ON CONFLICT (liquipedia_id, game) DO UPDATE SET ...
Insert(rows, record) ==
  IF Conflict(rows, record) = {}
  THEN Append(rows, [id |-> record.id, game |-> record.game, name |-> record.name])
  ELSE [r \in 1..Len(rows) |->
          IF r \in Conflict(rows, record)
          THEN [rows[r] EXCEPT !.name = record.name] ELSE rows[r]]

\* for (const team of teams) { await client.query(...); processed++; }
RECURSIVE InsertAll(_, _)
InsertAll(rows, batch) ==
  IF batch = <<>> THEN rows
  ELSE InsertAll(Insert(rows, Head(batch)), Tail(batch))

\* Does the statement run for this record?  It needs the constraint its
\* ON CONFLICT names and a value liquipedia_id can hold.
Accepted(unique, record) == unique /\ record.integer

\* The first record of the batch whose statement fails, 0 when none does:
\* the connection is lost at record broken, or the record is not accepted.
FailsAt(unique, batch, broken) ==
  LET F == {n \in 1..Len(batch) : n = broken \/ ~Accepted(unique, batch[n])} IN
  IF F = {} THEN 0 ELSE SetMin(F)

NoRollback(before, written) == written

\* await client.query('ROLLBACK'): the table is as it was at BEGIN
Rollback(before, written) == before

\* finally { client.release(); }
Release(held) == held - 1

DbInit ==
  /\ dbPc = "new"
  /\ dbUnique = FALSE
  /\ dbRows = <<>>
  /\ dbBatch = <<>>
  /\ dbFailedAt = 0
  /\ dbThrew = "nothing"
  /\ dbHeld = 0

\* initDatabase: the tables are created; addConstraintSafely adds the
\* constraint, or logs that it could not and returns.
InitDatabase(added) ==
  /\ UNCHANGED nonDbVars
  /\ dbPc = "new"
  /\ dbUnique' = added
  /\ dbPc' = "ready"
  /\ UNCHANGED <<dbRows, dbBatch, dbFailedAt, dbThrew, dbHeld>>

\* catch (error) { await client.query('ROLLBACK'); ...; throw error; }: on a
\* connection that is lost ROLLBACK fails too and its error leaves the catch.
Thrower(lost) == IF lost THEN "rollback" ELSE "statement"

\* upsert<Kind>(batch): a client is taken from the pool; BEGIN, one statement
\* per record, COMMIT, return; a statement that fails (a record that is not
\* accepted, or record broken, at which the statement is refused or the
\* connection lost) takes the catch: ROLLBACK of what the statements before
\* it wrote (a lost connection ends the transaction the same way), throw;
\* finally the client is released.
UpsertBatch(batch, broken, lost) ==
  /\ UNCHANGED nonDbVars
  /\ dbPc # "new"
  /\ dbFailedAt' = FailsAt(dbUnique, batch, broken)
  /\ IF FailsAt(dbUnique, batch, broken) = 0
     THEN /\ dbRows' = InsertAll(dbRows, batch)
          /\ dbBatch' = batch
          /\ dbPc' = "commit"
          /\ dbThrew' = "nothing"
     ELSE /\ dbRows' = Rollback(dbRows,
                         InsertAll(dbRows,
                           SubSeq(batch, 1, FailsAt(dbUnique, batch, broken) - 1)))
          /\ dbPc' = "rollback"
          /\ dbThrew' = Thrower(lost /\ FailsAt(dbUnique, batch, broken) = broken)
          /\ UNCHANGED dbBatch
  /\ dbHeld' = Release(dbHeld + 1)
  /\ UNCHANGED dbUnique

DbNext ==
  \/ \E added \in BOOLEAN : InitDatabase(added)
  \/ \E batch \in Batches : \E broken \in 0..Len(batch), lost \in BOOLEAN :
       UpsertBatch(batch, broken, lost)

(***************************************************************************)
(* The loops over sub-resources:                                           *)
(*   for (const item of items.slice(0, cap)) {                             *)
(*     try { await <fetch of the item>; ...; await <delay>; }              *)
(*     catch (error) { logger.warn(...); } }                               *)
(***************************************************************************)
MaxItems == 3

Loops == {"matchSubpages", "searchResults", "brackets", "finalResults", "teamPages",
          "players", "recentMatches", "tournamentResults"}

\* Does the fetch of an item catch its own failure and return null?
\* fetchMatchDetails, fetchPlayerDetails and fetchTournamentDetails do; the
\* team pages are read with makeRequest itself.
Swallows(loop) == loop # "teamPages"

\* The requests one fetch starts together: fetchTournamentDetails asks for
\* the wikitext and the HTML of a page with Promise.all.
PerItem(loop) == IF loop = "tournamentResults" THEN 2 ELSE 1

LoopInit ==
  /\ lLoop = "teamPages"
  /\ lPc = "idle"
  /\ lLeft = 0
  /\ lInFlight = 0
  /\ lHasty = FALSE

\* The loop starts the fetch of its next item, or ends.
NextItem(hasty) ==
  IF lLeft' >= 0
  THEN /\ lPc' = "request"
       /\ lInFlight' = lInFlight - (IF lPc = "request" THEN 1 ELSE 0) + PerItem(lLoop')
       /\ lHasty' = (lHasty \/ hasty)
  ELSE /\ lPc' = "done"
       /\ lInFlight' = lInFlight - (IF lPc = "request" THEN 1 ELSE 0)
       /\ lHasty' = lHasty

\* A function reaches one of the loops with n items.
LoopStart(loop, n) ==
  /\ UNCHANGED nonLoopVars
  /\ lPc = "idle"
  /\ lLoop' = loop
  /\ lLeft' = n - 1
  /\ NextItem(FALSE)
  /\ UNCHANGED jammed

\* A request of the loop settles.
LoopSettle(out) ==
  /\ UNCHANGED nonLoopVars
  /\ lInFlight > 0
  /\ ~jammed[LimiterOf("intensive")]
  /\ UNCHANGED lLoop
  /\ CASE out = "throttled" ->
            /\ jammed' = [jammed EXCEPT ![LimiterOf("intensive")] = TRUE]
            /\ UNCHANGED <<lPc, lLeft, lInFlight, lHasty>>
       [] out = "error" /\ lPc = "request" /\ ~Swallows(lLoop) ->
            /\ lLeft' = lLeft - 1
            /\ NextItem(lLeft > 0)
            /\ UNCHANGED jammed
       [] OTHER ->
            /\ lInFlight' = lInFlight - 1
            /\ lPc' = IF lPc = "request" /\ (out = "error" \/ lInFlight = 1)
                      THEN "delay" ELSE lPc
            /\ UNCHANGED <<lLeft, lHasty, jammed>>

\* The delay at the end of the try block is over.
LoopDelayOver ==
  /\ UNCHANGED nonLoopVars
  /\ lPc = "delay"
  /\ UNCHANGED <<lLoop, jammed>>
  /\ lLeft' = lLeft - 1
  /\ NextItem(FALSE)

LoopNext ==
  \/ \E loop \in Loops, n \in 0..MaxItems : LoopStart(loop, n)
  \/ \E out \in {"ok", "error", "throttled"} : LoopSettle(out)
  \/ LoopDelayOver

(***************************************************************************)
(* fetchTournamentMatchesDetailed: the subpages of the tournament, then    *)
(* the LPDB match query, then the search.                                  *)
(***************************************************************************)
MaxSubpages  == 2
MaxMatchRows == 2
MaxMatchHits == 2
SubpageCap   == 10
MatchHitCap  == 5

Regardless(matches) == TRUE

\* if (matches.length === 0)
NoMatches(matches) == matches = <<>>

TmInit ==
  /\ tmPc = "idle"
  /\ tmLeft = 0
  /\ tmMatches = <<>>
  /\ tmAsked = <<>>
  /\ tmFaults = {}

\* fetchTournamentMatchesDetailed is called: it asks for the list of subpages.
TmStart ==
  /\ UNCHANGED nonTmVars
  /\ tmPc = "idle"
  /\ tmPc' = "subpages"
  /\ tmAsked' = <<"subpages">>
  /\ UNCHANGED <<tmLeft, tmMatches, tmFaults, jammed>>

\* catch (error) { ...; return []; }
TmCaught(request) ==
  /\ tmMatches' = <<>>
  /\ tmFaults' = tmFaults \cup {request}
  /\ tmPc' = "returned"
  /\ UNCHANGED <<tmLeft, tmAsked>>

\* Method 3: with no match so far the search is asked for, else matches is
\* returned.
TmMethod3(matches, asked) ==
  IF NoMatches(matches)
  THEN tmPc' = "search" /\ tmAsked' = Append(asked, "search")
  ELSE tmPc' = "returned" /\ tmAsked' = asked

\* Method 2: with no match from the subpages the LPDB query is asked for.
TmMethod2(matches) ==
  IF NoMatches(matches)
  THEN tmPc' = "lpdb" /\ tmAsked' = Append(tmAsked, "lpdb")
  ELSE TmMethod3(matches, tmAsked)

\* The list of subpages settles: n of them are bracket or match pages.
TmSubpages(out, n) ==
  /\ UNCHANGED nonTmVars
  /\ tmPc = "subpages"
  /\ ~jammed[LimiterOf("standard")]
  /\ CASE out = "throttled" ->
            /\ jammed' = [jammed EXCEPT ![LimiterOf("standard")] = TRUE]
            /\ UNCHANGED tmVars
       [] out = "error" ->
            /\ TmCaught("subpages")
            /\ UNCHANGED jammed
       [] out = "answer" ->
            /\ tmLeft' = Min(n, SubpageCap)
            /\ IF n = 0
               THEN TmMethod2(tmMatches)
               ELSE tmPc' = "page" /\ tmAsked' = Append(tmAsked, "page")
            /\ UNCHANGED <<tmMatches, tmFaults, jammed>>

\* fetchMatchDetails for a subpage settles: it returns the details, or null
\* when the page has no wikitext or its request failed.
TmPage(out) ==
  /\ UNCHANGED nonTmVars
  /\ tmPc = "page"
  /\ ~jammed[LimiterOf("intensive")]
  /\ IF out = "throttled"
     THEN /\ jammed' = [jammed EXCEPT ![LimiterOf("intensive")] = TRUE]
          /\ UNCHANGED tmVars
     ELSE /\ tmMatches' = IF out = "details"
                          THEN Append(tmMatches, "tournament_subpage")
                          ELSE tmMatches
          /\ tmLeft' = tmLeft - 1
          /\ IF tmLeft = 1
             THEN TmMethod2(tmMatches')
             ELSE tmPc' = "page" /\ tmAsked' = Append(tmAsked, "page")
          /\ UNCHANGED <<tmFaults, jammed>>

\* The LPDB match query settles: n rows, or a failure its own catch logs.
TmLpdb(out, n) ==
  /\ UNCHANGED nonTmVars
  /\ tmPc = "lpdb"
  /\ ~jammed[LimiterOf("lpdb")]
  /\ IF out = "throttled"
     THEN /\ jammed' = [jammed EXCEPT ![LimiterOf("lpdb")] = TRUE]
          /\ UNCHANGED tmVars
     ELSE /\ tmMatches' = IF out = "answer"
                          THEN tmMatches \o [k \in 1..n |-> "lpdb_match"]
                          ELSE tmMatches
          /\ tmFaults' = IF out = "error" THEN tmFaults \cup {"lpdb"} ELSE tmFaults
          /\ TmMethod3(tmMatches', tmAsked)
          /\ UNCHANGED <<tmLeft, jammed>>

\* The search settles: n of its first results have the name in their title.
TmSearch(out, n) ==
  /\ UNCHANGED nonTmVars
  /\ tmPc = "search"
  /\ ~jammed[LimiterOf("standard")]
  /\ CASE out = "throttled" ->
            /\ jammed' = [jammed EXCEPT ![LimiterOf("standard")] = TRUE]
            /\ UNCHANGED tmVars
       [] out = "error" ->
            /\ TmCaught("search")
            /\ UNCHANGED jammed
       [] out = "answer" ->
            /\ tmLeft' = Min(n, MatchHitCap)
            /\ IF n = 0
               THEN tmPc' = "returned" /\ UNCHANGED tmAsked
               ELSE tmPc' = "hit" /\ tmAsked' = Append(tmAsked, "hit")
            /\ UNCHANGED <<tmMatches, tmFaults, jammed>>

\* fetchMatchDetails for a search result settles.
TmHit(out) ==
  /\ UNCHANGED nonTmVars
  /\ tmPc = "hit"
  /\ ~jammed[LimiterOf("intensive")]
  /\ IF out = "throttled"
     THEN /\ jammed' = [jammed EXCEPT ![LimiterOf("intensive")] = TRUE]
          /\ UNCHANGED tmVars
     ELSE /\ tmMatches' = IF out = "details"
                          THEN Append(tmMatches, "search_result")
                          ELSE tmMatches
          /\ tmLeft' = tmLeft - 1
          /\ IF tmLeft = 1
             THEN tmPc' = "returned" /\ UNCHANGED tmAsked
             ELSE tmPc' = "hit" /\ tmAsked' = Append(tmAsked, "hit")
          /\ UNCHANGED <<tmFaults, jammed>>

TmNext ==
  \/ TmStart
  \/ \E out \in {"answer", "error", "throttled"}, n \in 0..MaxSubpages : TmSubpages(out, n)
  \/ \E out \in {"details", "null", "throttled"} : TmPage(out)
  \/ \E out \in {"answer", "error", "throttled"}, n \in 0..MaxMatchRows : TmLpdb(out, n)
  \/ \E out \in {"answer", "error", "throttled"}, n \in 0..MaxMatchHits : TmSearch(out, n)
  \/ \E out \in {"details", "null", "throttled"} : TmHit(out)

Init ==
  /\ GovInit /\ SchedInit /\ JamInit /\ AggInit /\ StatInit /\ FetchInit
  /\ ResInit /\ PartInit /\ MarkInit /\ DbInit /\ LoopInit /\ TmInit
Next == GovNext
Spec == Init /\ [][Next]_vars

SpecFair ==
  /\ Spec
  /\ WF_vars(Advance)
  /\ \A c \in Classes : WF_vars(Launch(c))
  /\ \A k \in Calls : WF_vars(\E r \in Responses : Respond(k, r))
  /\ \A k \in Calls : WF_vars(Retry(k))

SpecScheduler == Init /\ [][SchedNext]_vars

SpecAggregator == Init /\ [][AggNext]_vars

\* A step whose requests can settle does return.
SpecAggregatorFair ==
  /\ SpecAggregator
  /\ \A t \in Aggs :
       /\ WF_vars(\E found \in BOOLEAN, status \in ComputedStatuses :
                    AggResolve(t, found, status))
       /\ WF_vars(\E some \in BOOLEAN : AggTeamsDone(t, some))
       /\ WF_vars(\E some \in BOOLEAN : AggMatchesDone(t, some))
       /\ WF_vars(AggLastDone(t))
       /\ WF_vars(AggPlayersDone(t))

SpecStatus == Init /\ [][StatNext]_vars

SpecFetch == Init /\ [][FetchNext]_vars

SpecResolve == Init /\ [][ResNext]_vars

SpecParticipants == Init /\ [][PartNext]_vars

SpecMarkup == Init /\ [][MarkNext]_vars

SpecDb == Init /\ [][DbNext]_vars

SpecLoop == Init /\ [][LoopNext]_vars

SpecMatches == Init /\ [][TmNext]_vars

\* A request that can settle does settle.
SpecFetchFair ==
  /\ SpecFetch
  /\ WF_vars(\E out \in Outcomes, rows \in RowLists : FetchLpdb(out, rows))
  /\ WF_vars(\E out \in Outcomes, rows \in RowLists : FetchFallback(out, rows))

SpecSchedulerFair ==
  /\ SpecScheduler
  /\ \A i \in Runs :
       /\ WF_vars(\E r \in Outcomes : Stage1(i, r))
       /\ WF_vars(\E r \in Outcomes : Stage2(i, r))
       /\ WF_vars(\E ok \in BOOLEAN : Upsert(i, ok))
       /\ WF_vars(LogOk(i))
       /\ WF_vars(Pause(i))
       /\ WF_vars(CatchLog(i))
       /\ WF_vars(DelayOver(i))
       /\ WF_vars(LogFull(i))

(***************************************************************************)
(* Request governor: properties.                                           *)
(***************************************************************************)

\* C1: in every rate class, two consecutive remote requests start at least
\* the class's minimum interval apart, whichever callers issued them.
C1_MinSpacing ==
  \A c \in Classes : lastGap[c] = -1 \/ lastGap[c] >= MinTime(c)

\* Two different calls were sent one after the other in the same class.
C1_Witness ==
  \E c \in Classes :
    /\ lastGap[c] >= MinTime(c)
    /\ \A k \in Calls : opType[k] = c /\ attempts[k] = 1

\* C2: a call whose every attempt is answered with a 429 makes 4 remote
\* attempts (the first and 3 retries), then fails with the rate-limit error,
\* and makes no attempt after that.
C2_ThrottledCallFails ==
  \A k \in Calls :
    (([]all429[k]) /\ <>(attempts[k] > 0))
      => <>[](result[k] = "RateLimited" /\ attempts[k] = MaxRetries + 1)

\* C3: every request accepted by a limiter eventually settles and frees the
\* limiter's slot, also when a 429 makes the running job retry.
C3_EveryRequestSettles ==
  \A k \in Calls : (pc[k] = "queued") ~> (pc[k] = "settled" /\ running[limiter[k]] = 0)

\* C4: the delays waited before the 1st, 2nd and 3rd retry are 2x, 4x and 8x
\* baseDelay.
C4_BackoffDelays ==
  \A k \in Calls : \A i \in 1..Len(delays[k]) : delays[k][i] = baseDelay * Pow2(i)

\* C5: at most one remote request per rate class is in flight, and a request
\* is only ever held back by requests of its own class.
InFlight(c) == {k \in Calls : pc[k] = "inflight" /\ opType[k] = c}

Ahead(j, k) ==
  \E m, n \in 1..Len(queue[limiter[k]]) :
    m < n /\ queue[limiter[k]][m] = j /\ queue[limiter[k]][n] = k

HeldBackByOwnClass(k) ==
  \/ \E j \in Calls : opType[j] = opType[k] /\ (SlotsHeld(j) > 0 \/ Ahead(j, k))
  \/ sinceLaunch[opType[k]] < MinTime(opType[k])

C5_OneInFlightPerClass ==
  /\ \A c \in Classes : Cardinality(InFlight(c)) <= 1
  /\ \A k \in Calls :
       (pc[k] = "queued" /\ ~HeldBackByOwnClass(k))
         => (Head(queue[limiter[k]]) = k /\ ENABLED Launch(limiter[k]))

\* Requests of two classes are in flight together.
C5_Witness ==
  \E j, k \in Calls :
    /\ opType[j] # opType[k]
    /\ pc[j] = "inflight"
    /\ pc[k] = "inflight"

\* A call that was answered with a 429 never settles: its retry waits behind
\* the job that awaits it.
ThrottledNeverSettles ==
  \A k \in Calls : Len(delays[k]) > 0 => pc[k] # "settled"

\* C13: a failure that is not a 429 makes makeRequest fail with that error
\* after one remote attempt: no retry, no backoff, no rate-limit error.
C13_ErrorFailsAtOnce ==
  /\ [](\A k \in Calls :
          result[k] = "error"
            => (pc[k] = "settled" /\ attempts[k] = 1 /\ delays[k] = <<>>))
  /\ [][\A k \in Calls :
          Respond(k, "error")
            => /\ pc'[k] = "settled"
               /\ result'[k] = "error"
               /\ attempts'[k] = attempts[k]
               /\ running'[limiter[k]] = 0]_vars

\* A call failed with the error of its only attempt, and its limiter is free.
C13_Witness ==
  \E k \in Calls :
    /\ result[k] = "error"
    /\ attempts[k] = 1
    /\ running[limiter[k]] = 0

(***************************************************************************)
(* SchedulerService: properties.                                           *)
(***************************************************************************)
InProgress(i) == runPc[i] \notin {"idle", "skipped", "returned"}

\* The sync methods whose bodies invocation i is inside.
KindsOf(i) == IF InProgress(i) THEN {runKind[i], frame[i]} ELSE {}

RunsOf(K) == {i \in Runs : K \in KindsOf(i)}

\* C6: for each sync kind at most one run is in progress; an invocation made
\* while a run of its kind is in progress returns at once, having asked for
\* no remote request and written nothing, and never runs later.
C6_SingleFlight ==
  /\ [](\A K \in Kinds : Cardinality(RunsOf(K)) <= 1)
  /\ [](\A i \in Runs :
          runPc[i] = "skipped" => ~didRemote[i] /\ ~didWrite[i])
  /\ [][\A i \in Runs :
          /\ (runPc[i] = "idle" /\ RunsOf(runKind'[i]) # {} /\ runPc'[i] # "idle")
               => runPc'[i] = "skipped"
          /\ runPc[i] = "skipped" => runPc'[i] = "skipped"]_vars

\* An invocation was skipped while a run of its kind is in progress.
C6_Witness ==
  \E i, j \in Runs :
    /\ runPc[i] = "skipped"
    /\ InProgress(j)
    /\ runKind[i] \in KindsOf(j)

\* C8: every sync run that is not skipped ends and leaves the flag of its
\* kind false, whatever its fetches and writes did.
C8_EveryRunEnds ==
  \A i \in Runs :
    InProgress(i) ~> (runPc[i] = "returned" /\ ~isRunning[runKind[i]])

(***************************************************************************)
(* fetchTournamentByName: properties.                                      *)
(***************************************************************************)

C14_NotFoundEndsEmpty ==
  /\ [](\A t \in Aggs :
          (aggPc[t] = "returned" /\ aggRemote[t] /\ aggRecord[t].tournament = "null")
            => /\ aggSteps[t] = <<>>
               /\ aggStatus[t] = "unknown"
               /\ ~aggTeams[t]
               /\ aggRecord[t] = EmptyRecord)
  /\ [][\A t \in Aggs :
          (/\ aggPc[t] = "resolve"
           /\ aggPc'[t] \notin {"resolve", "hung"}
           /\ aggRecord'[t].tournament = "null")
            => (aggPc'[t] = "returned" /\ aggSteps'[t] = <<>>)]_vars

\* An invocation whose lookup found nothing has returned.
C14_Witness ==
  \E t \in Aggs :
    /\ aggPc[t] = "returned"
    /\ aggRemote[t]
    /\ aggRecord[t].tournament = "null"

\* C15: with a tournament, the steps start in the order teams, matches,
\* results or brackets, players, each when the one before has returned; the
\* third is results exactly when the status is concluded, and the field of
\* the other one stays null.
C15_StepOrder ==
  /\ [](\A t \in Aggs :
          /\ Len(aggSteps[t]) <= 4
          /\ Len(aggSteps[t]) >= 1 => aggSteps[t][1] = "teams"
          /\ Len(aggSteps[t]) >= 2 => aggSteps[t][2] = "matches"
          /\ Len(aggSteps[t]) >= 3 =>
               /\ aggSteps[t][3] \in {"results", "brackets"}
               /\ aggSteps[t][3] = "results" <=> aggStatus[t] = "concluded"
               /\ aggSteps[t][3] = "results" => aggRecord[t].brackets = "null"
               /\ aggSteps[t][3] = "brackets" => aggRecord[t].results = "null"
          /\ Len(aggSteps[t]) >= 4 => aggSteps[t][4] = "players"
          /\ (aggPc[t] = "returned" /\ aggRecord[t].tournament = "found") =>
               /\ Len(aggSteps[t]) >= 3
               /\ aggRecord[t].results = "list" <=> aggSteps[t][3] = "results"
               /\ aggRecord[t].brackets = "list" <=> aggSteps[t][3] = "brackets")
  /\ [][\A t \in Aggs :
          aggSteps'[t] # aggSteps[t] =>
            /\ aggSteps'[t] = Append(aggSteps[t], aggPc'[t])
            /\ aggPc[t] = IF aggSteps[t] = <<>> THEN "resolve"
                          ELSE aggSteps[t][Len(aggSteps[t])]]_vars

\* An invocation for a concluded tournament went through its four steps.
C15_Witness ==
  \E t \in Aggs :
    /\ aggPc[t] = "returned"
    /\ aggSteps[t] = <<"teams", "matches", "results", "players">>
    /\ aggRecord[t].results = "list"
    /\ aggRecord[t].brackets = "null"

\* C19: fetchTournamentByName always hands back a record, whatever the
\* requests of its steps did.
C19_AlwaysResolves ==
  \A t \in Aggs : (aggPc[t] = "resolve") ~> (aggPc[t] = "returned")

(***************************************************************************)
(* fetchTournamentDetails: properties.                                     *)
(***************************************************************************)
IsSearch(q) == q.kind = "search"

\* The variations that are looked up: the non-empty ones, in their order.
LookedUp(name) == SelectSeq(Variations(name), LAMBDA v : v # <<>>)

\* The number of direct lookups asked for so far.
NDirect ==
  IF \E i \in 1..Len(rRequests) : IsSearch(rRequests[i])
  THEN (CHOOSE i \in 1..Len(rRequests) : IsSearch(rRequests[i])) - 1
  ELSE Len(rRequests)

\* C16: the raw name is looked up first, then the variants in their fixed
\* order, one lookup of the intensive class each; no lookup follows one that
\* found its page; the search, of the standard class, is asked for only when
\* every variant has been looked up and none has a page.
C16_LookupOrder ==
  /\ NDirect <= Len(LookedUp(rName))
  /\ \A i \in 1..NDirect :
       /\ rRequests[i].kind = "lookup"
       /\ rRequests[i].class = "intensive"
       /\ rRequests[i].page = LookedUp(rName)[i]
       /\ i < NDirect => rRequests[i].page \notin rPages
  /\ (rPc # "idle" /\ NDirect >= 1) => rRequests[1].page = rName
  /\ \A i \in 1..Len(rRequests) :
       IsSearch(rRequests[i]) =>
         /\ rRequests[i].class = "standard"
         /\ NDirect = Len(LookedUp(rName))
         /\ \A j \in 1..NDirect : rRequests[j].page \notin rPages
  /\ (rResult = "record" /\ rVia <= NVariations) =>
       /\ \A i \in 1..Len(rRequests) : ~IsSearch(rRequests[i])
       /\ rFound = rRequests[Len(rRequests)].page
       /\ rFound \in rPages

\* The search was asked for after the six variations of the first name, and
\* a lookup stopped the resolution of a name at its third variation.
C16_Witness ==
  /\ rName = NameA
  /\ Len(rRequests) = NVariations + 1
  /\ IsSearch(rRequests[NVariations + 1])

\* C17: with the page "CCT Season 3 Oceania Series" alone, resolving
\* "CCT Season 3 Oceania Series 2" gives that page as found name, through the
\* variation that strips the season or series suffix, and without a search.
C17_FoundBySuffixStripping ==
  (rName = NameA /\ rPages = {SeriesPage} /\ rPc = "done" /\ ~rFault)
    => /\ rResult = "record"
       /\ rFound = SeriesPage
       /\ rVia \in {2, 3}
       /\ \A i \in 1..Len(rRequests) : ~IsSearch(rRequests[i])

\* C17 as the code has it: the page is found by the last variation, the
\* name without its last word, after the five before it found nothing; no
\* search is asked for.
C17_FoundByDroppingLastWord ==
  (rName = NameA /\ rPages = {SeriesPage} /\ rPc = "done" /\ ~rFault)
    => /\ rResult = "record"
       /\ rFound = SeriesPage
       /\ rVia = NVariations
       /\ Len(rRequests) = NVariations
       /\ \A i \in 1..Len(rRequests) : ~IsSearch(rRequests[i])

\* The name was resolved on a wiki that has the series page alone.
C17_Witness ==
  /\ rName = NameA
  /\ rPages = {SeriesPage}
  /\ rPc = "done"
  /\ rResult = "record"

\* C18: a resolution that met a transport error does not return the null
\* that stands for 'not found'.
C18_FaultIsNotNull ==
  (rPc = "done" /\ rFault) => rResult # "null"

(***************************************************************************)
(* Tournament status: properties.                                          *)
(***************************************************************************)

\* The status the rule gives: concluded if end < now; else ongoing if
\* start <= now <= end, or end absent and start <= now; else upcoming if
\* start > now; else unknown.
Before(f, now) == Truthy(f) /\ ParseDate(f) < now
NotAfter(f, now) == Truthy(f) /\ ParseDate(f) <= now

RuleStatus(start, end, now) ==
  IF Before(end, now) THEN "concluded"
  ELSE IF \/ NotAfter(start, now) /\ Truthy(end) /\ now <= ParseDate(end)
          \/ ~Truthy(end) /\ NotAfter(start, now)
       THEN "ongoing"
       ELSE IF Truthy(start) /\ now < ParseDate(start) THEN "upcoming"
            ELSE "unknown"

\* The dates the rule speaks of: both are dates or absent, the end is not
\* before the start, and an end comes with a start.
RuleApplies(start, end) ==
  /\ start[1] # "bad"
  /\ end[1] # "bad"
  /\ Truthy(end) => Truthy(start) /\ ParseDate(start) <= ParseDate(end)

\* C9: the status computed from (start, end, now) is concluded if end < now;
\* otherwise ongoing if start <= now <= end, or if end is absent and
\* start <= now; otherwise upcoming if start > now; otherwise unknown.
C9_StatusRule ==
  (stPc = "done" /\ RuleApplies(stStart, stEnd))
    => stStatus = RuleStatus(stStart, stEnd, stNow)

(***************************************************************************)
(* fetchTeams and fetchPlayers: properties.                                *)
(***************************************************************************)

\* C10: the list returned has one record with a status for every row of the
\* stage that produced the list, LPDB or fallback.
C10_OneRecordPerRow ==
  (fPc = "returned" /\ fKind \in {"teams", "players"} /\ fStage # "none")
    => /\ Len(fResult) = Len(fList)
       /\ \A i \in 1..Len(fList) :
            /\ fResult[i].id = fList[i].id
            /\ fResult[i].status \in {"active", "inactive", "retired", "unknown"}

\* The fallback request has been asked for.
FallbackIssued == fPc = "fallback" \/ fFallback # "none"

\* C11: in fetchTeams, fetchPlayers and fetchTournaments the fallback request
\* is issued if and only if the LPDB stage has completed with zero rows
\* (failed or empty); never before it completed, never after it gave rows.
C11_FallbackIffNoRows ==
  (fPc # "idle" /\ fKind \in {"teams", "players", "tournaments"})
    => (FallbackIssued <=> fLpdb \in {"empty", "error"})

\* C11 as the code has it: the fallback request is issued if and only if the
\* LPDB stage has completed with zero rows and the game is one of this.games.
C11_FallbackIffNoRowsAndConfigured ==
  (fPc # "idle" /\ fKind \in {"teams", "players", "tournaments"})
    => (FallbackIssued <=> (fLpdb \in {"empty", "error"} /\ fGame \in ConfiguredGames))

\* fetchTournaments got its list from the fallback after the LPDB stage failed.
C11_Witness ==
  /\ fKind = "tournaments"
  /\ fLpdb = "error"
  /\ fFallback = "rows"
  /\ fPc = "returned"
  /\ Len(fResult) > 0

\* C12: fetchTeams, fetchPlayers, fetchTournaments and fetchRecentMatches
\* always hand back a list, whatever the two requests did, and the empty list
\* when neither stage gave rows.
C12_AlwaysResolves ==
  /\ (fPc = "lpdb") ~> (fPc = "returned")
  /\ []((fPc = "returned" /\ fLpdb # "rows" /\ fFallback # "rows") => fResult = <<>>)

\* C20: the participants list of the tournament in the record returned has
\* no name twice, whatever the requests of the teams step gave.
C20_ParticipantsUnique ==
  pPc \in {"returned", "done"} => NoDuplicates(pParticipants)

\* The entries of matches the bracket pass made, and those the MatchMaps
\* pass made
FromBrackets(matches) == Pick(matches, Indices(matches, LAMBDA m : m.round # 0))
FromMatchMaps(matches) == Pick(matches, Indices(matches, LAMBDA m : m.team1 # undefined))

\* The MatchMaps blocks of a page that name both teams
TwoTeamBlocks(body) ==
  {b \in OfKind(body, "MatchMaps") :
     /\ Indices(body[b].fields, LAMBDA f : f[1] = "team1" /\ f[2] # <<>>) # {}
     /\ Indices(body[b].fields, LAMBDA f : f[1] = "team2" /\ f[2] # <<>>) # {}}

Normalised(name) == Lower(Trim(name))

\* C21: after parseTournamentWikitext and extractDataFromHTML, no two
\* participants are equal once case and surrounding blanks are set aside.
C21_NoNormalisedDuplicates ==
  mPc = "extracted" =>
    \A i, j \in 1..Len(mParsed.participants) :
      Normalised(mParsed.participants[i]) = Normalised(mParsed.participants[j]) => i = j

\* C22: extractDataFromHTML only adds: the participants it was given stay
\* in front in their order with the HTML names after them, and every match
\* it was given keeps the value of every field it had (the HTML score goes
\* to html_score or to a new entry at the end).
C22_HtmlOnlyAdds ==
  mPc = "extracted" =>
    /\ Len(mParsed.participants) >= Len(mBefore.participants)
    /\ SubSeq(mParsed.participants, 1, Len(mBefore.participants)) = mBefore.participants
    /\ Len(mParsed.matches) >= Len(mBefore.matches)
    /\ \A i \in 1..Len(mBefore.matches) :
         [mParsed.matches[i] EXCEPT !.html_score = mBefore.matches[i].html_score]
           = mBefore.matches[i]

C22_Witness ==
  /\ mPc = "extracted"
  /\ mBefore.participants # <<>>
  /\ Len(mParsed.participants) > Len(mBefore.participants)
  /\ mBefore.matches # <<>>
  /\ mParsed.matches[1].html_score # undefined
  /\ Len(mParsed.matches) > Len(mBefore.matches)

Without(wikitext, label) ==
  [wikitext EXCEPT !.entries = [l \in DOMAIN wikitext.entries \ {label} |-> @[l]]]

C26_MatchesAreBothPasses ==
  mPc = "parsed" =>
    Len(mParsed.matches) =
      Len(FromBrackets(mParsed.matches)) + Cardinality(TwoTeamBlocks(mWikitext.body))

Precedes(a, b) == a[1] < b[1] \/ (a[1] = b[1] /\ a[2] <= b[2])

PairsOf(fields) ==
  LET scores  == Pick(fields, Indices(fields, LAMBDA f : f[1] = "score"))
      winners == Pick(fields, Indices(fields, LAMBDA f : f[1] = "win"))
      n       == Min(Len(scores), Len(winners))
      all     == [i \in 1..n |->
                    [round |-> ((i - 1) \div 2) + 1, match_id |-> i,
                     score |-> Trim(scores[i][2]), winner |-> Trim(winners[i][2]),
                     status |-> "completed"]]
  IN Pick(all, Indices(all, LAMBDA e : e.score # <<>> /\ e.winner # <<>>))

PairsOfAll(body) ==
  LET brackets == Pick(body, OfKind(body, "Bracket"))
  IN Flatten([i \in 1..Len(brackets) |-> PairsOf(brackets[i].fields)])

\* C28: the bracket pass emits exactly the pairs of the bracket blocks of
\* the page: i-th score with i-th winner, round floor(i/2)+1, match id i+1,
\* status completed, for every block.
C28_BracketPairs ==
  mPc = "parsed" =>
    LET made == FromBrackets(mParsed.matches)
    IN [i \in 1..Len(made) |->
          [round |-> made[i].round, match_id |-> made[i].match_id,
           score |-> made[i].score, winner |-> made[i].winner,
           status |-> made[i].status]]
       = PairsOfAll(mWikitext.body)

\* C29: the MatchMaps pass emits one entry for each block naming both
\* teams and none for another block; the entry is completed exactly when
\* the block holds both scores and scheduled otherwise, and a score or date
\* the block does not hold is null.
C29_OneEntryPerTwoTeamBlock ==
  mPc = "parsed" =>
    LET made == FromMatchMaps(mParsed.matches)
    IN /\ {made[i].at[1] : i \in 1..Len(made)} = TwoTeamBlocks(mWikitext.body)
       /\ Len(made) = Cardinality(TwoTeamBlocks(mWikitext.body))
       /\ \A i \in 1..Len(made) :
            made[i].status =
              IF made[i].score1 # null /\ made[i].score2 # null
              THEN "completed" ELSE "scheduled"

\* C25: every run of syncTeams, syncPlayers, syncMatches or syncTournaments
\* that was not skipped has stored at least one sync_log row when it ends.
C25_EveryRunLogs ==
  \A i \in Runs :
    runPc[i] = "returned" /\ runKind[i] \in {"teams", "players", "matches", "tournaments"}
      => didLog[i]

KeysOf(rows) == [r \in 1..Len(rows) |-> <<rows[r].id, rows[r].game>>]

\* C24: a batch upsert is idempotent on the key (liquipedia_id, game):
\* after a batch has been applied the table holds one row for each key,
\* the row of a key has the columns of the last record of the batch with
\* that key, and applying the same batch again leaves the rows as they are.
C24_UpsertIdempotent ==
  dbPc = "commit" =>
    /\ NoDuplicates(KeysOf(dbRows))
    /\ \A n \in 1..Len(dbBatch) :
         \E r \in 1..Len(dbRows) :
           /\ KeysOf(dbRows)[r] = <<dbBatch[n].id, dbBatch[n].game>>
           /\ \E m \in n..Len(dbBatch) :
                /\ dbRows[r].name = dbBatch[m].name
                /\ <<dbBatch[m].id, dbBatch[m].game>> = KeysOf(dbRows)[r]
                /\ \A l \in (m + 1)..Len(dbBatch) :
                     <<dbBatch[l].id, dbBatch[l].game>> # KeysOf(dbRows)[r]
    /\ InsertAll(dbRows, dbBatch) = dbRows

C24_Witness ==
  /\ dbPc = "commit"
  /\ Len(dbBatch) = 2
  /\ dbBatch[1].id = dbBatch[2].id /\ dbBatch[1].game = dbBatch[2].game
  /\ dbBatch[1].name # dbBatch[2].name
  /\ Len(dbRows) = 3

\* C30: in a loop over sub-resources the fetch of an item is started only
\* after the fetch of the item before it has ended and the delay of the loop
\* has been waited, and no two requests of the loop are in flight together,
\* whether or not a fetch fails.
C30_OneAtATimeAndSpaced ==
  lInFlight <= 1 /\ ~lHasty

\* C31: the record fetchTournamentByName returns has no players and the
\* players step has issued no request, whatever the teams step was given.
C31_NoPlayers ==
  pPc = "done" => pPlayers = <<>> /\ pAsked = 0

C31_Witness ==
  pPc = "done" /\ Len(pTeams) >= 2

\* C39: fetchTournamentTeamsImproved returns at most 16 teams, their names
\* pairwise distinct, each longer than one character and without "{{", in
\* the order in which the names first occur among the participant names;
\* when the LPDB request or the subpage request fails it returns no team.
C39_TeamsReturned ==
  /\ [](pPc \in {"returned", "done"} =>
        LET names == [i \in 1..Len(pTeams) |-> pTeams[i].name] IN
        /\ Len(names) <= TeamCap
        /\ NoDuplicates(names)
        /\ \A i \in 1..Len(names) :
             /\ Len(names[i]) > 1 /\ ~Includes(names[i], <<"{", "{">>)
             /\ \E k \in 1..Len(pParticipants) :
                  /\ pParticipants[k] = names[i]
                  /\ \A j \in 1..(i - 1) :
                       \E l \in 1..(k - 1) : pParticipants[l] = names[j])
  /\ [][PartError => pPc' = "returned" /\ pTeams' = <<>>]_vars

\* Teams were left out by the filter and by the limit of 16.
C39_Witness ==
  /\ pPc = "returned"
  /\ Len(pTeams) = TeamCap
  /\ \E k \in 1..Len(pParticipants) : ~Proper(pParticipants[k])
  /\ Len(Unique(pParticipants)) > TeamCap + 1

\* C32: a direct lookup of fetchTournamentDetails that fails, by a transport
\* error or by throttling, ends the resolution at once with null: no further
\* variation is looked up and the search is not asked for.
C32_FailedLookupEnds ==
  [][(\E out \in {"error", "throttled"} : ResLookup(out))
       => (rPc' = "done" /\ rResult' = "null" /\ rRequests' = rRequests)]_vars

\* Both 'cct' and 'oceania' occur in s, whatever the case of its letters.
NamesCctOceania(s) == Includes(Lower(s), Cct) /\ Includes(Lower(s), Oceania)

\* The search result of index j is one searchForTournament returns a record for.
Eligible(j) ==
  /\ NamesCctOceania(rHits[j])
  /\ NamesCctOceania(rName)
  /\ rHits[j] \in rPages

\* C38: searchForTournament returns a record only for the first search
\* result, in the order of the results, whose title and the name asked for
\* both hold 'cct' and 'oceania' and whose page has wikitext; without such a
\* result, and when a request failed, it returns null.
C38_FirstEligibleHit ==
  /\ (rResult = "record" /\ rVia = NVariations + 1) =>
       /\ rHit \in 1..Len(rHits)
       /\ rFound = rHits[rHit]
       /\ Eligible(rHit)
       /\ \A j \in 1..(rHit - 1) : ~Eligible(j)
  /\ (rPc = "done" /\ rResult = "null" /\ ~rFault
        /\ \E i \in 1..Len(rRequests) : IsSearch(rRequests[i])) =>
       \A j \in 1..Len(rHits) : ~Eligible(j)
  /\ (rPc = "done" /\ rFault) => rResult = "null"

\* The record is the one of the second search result: the first looked like
\* the name too, but its page had no wikitext.
C38_Witness ==
  /\ rResult = "record"
  /\ rVia = NVariations + 1
  /\ rHit = 2
  /\ NamesCctOceania(rHits[1])

\* Invocation i is between passing its guard and finishing.
UnderWay(i) == runPc[i] \notin {"idle", "skipped", "returned"}

\* Invocation i is executing sync method K, or it is a fullSync run waiting
\* for the sub-sync it called.
Running(i, K) ==
  UnderWay(i) /\ (frame[i] = K \/ (K = "full" /\ runKind[i] = "full"))

\* C33: the flag of a sync kind is true exactly while one run of that kind
\* is between its guard and its end; a step changes the flag of a kind only
\* when it is the step of a run of that kind (a sub-sync of fullSync being a
\* run of its own kind); with no run under way every flag is false.
C33_FlagsTrackRuns ==
  /\ [](\A K \in Kinds :
          /\ isRunning[K] <=> \E i \in Runs : Running(i, K)
          /\ \A i, j \in Runs : (Running(i, K) /\ Running(j, K)) => i = j)
  /\ []((\A i \in Runs : ~UnderWay(i)) => \A K \in Kinds : ~isRunning[K])
  /\ [][\A K \in Kinds :
          isRunning'[K] # isRunning[K] =>
            \E i \in Runs :
              /\ runPc'[i] # runPc[i] \/ frame'[i] # frame[i]
              /\ K \in {frame[i], frame'[i]} \/ (K = "full" /\ runKind'[i] = "full")]_vars

\* A fullSync run is inside its syncPlayers while a syncTeams run of its own
\* is under way too.
C33_Witness ==
  \E i, j \in Runs :
    /\ runKind[i] = "full" /\ frame[i] = "players" /\ runPc[i] = "stage2"
    /\ runKind[j] = "teams" /\ runPc[j] = "upsert"
    /\ isRunning["full"] /\ isRunning["players"] /\ isRunning["teams"]
    /\ ~isRunning["matches"]

\* Invocation i, a fullSync run, calls a sub-sync in this step.
CallsSub(i) ==
  /\ runKind'[i] = "full"
  /\ \/ runPc[i] = "idle" /\ runPc'[i] # "skipped"
     \/ runPc[i] = "delay" /\ runPc'[i] # "delay"

\* C34: a fullSync run calls syncTeams, syncPlayers, syncMatches and
\* syncTournaments in this order, each after the one before has returned; a
\* sub-sync whose flag is set when it is called returns at once, and the
\* fullSync run goes on without waiting for the run that holds the flag.
C34_SubSyncsInOrder ==
  /\ [](\A i \in Runs :
          (runKind[i] = "full" /\ UnderWay(i) /\ frame[i] # "full") =>
            /\ step[i] = 1 => frame[i] = "teams"
            /\ step[i] = 2 => frame[i] = "players"
            /\ step[i] = 3 => frame[i] = "matches"
            /\ step[i] = 4 => frame[i] = "tournaments")
  /\ [](\A i \in Runs :
          (runKind[i] = "full" /\ runPc[i] = "returned") => step[i] = 4)
  /\ [][\A i \in Runs :
          /\ (runKind'[i] = "full" /\ step'[i] # step[i]) =>
               /\ step'[i] = step[i] + 1
               /\ runPc[i] = "delay"
               /\ frame[i] = "full"
          /\ (CallsSub(i) /\ isRunning[SubSyncs[step'[i]]]) =>
               /\ frame'[i] = "full"
               /\ runPc'[i] = IF step'[i] = 4 THEN "logfull" ELSE "delay"
               /\ \A K \in Kinds \ {"full"} : isRunning'[K] = isRunning[K]]_vars

\* A fullSync run has gone past its syncTeams, which did nothing, while the
\* syncTeams run that held the flag is still under way.
C34_Witness ==
  \E i, j \in Runs :
    /\ runKind[i] = "full" /\ runPc[i] = "delay" /\ step[i] = 1 /\ ~didRemote[i]
    /\ runKind[j] = "teams" /\ runPc[j] = "stage1" /\ isRunning["teams"]

\* C35: a fullSync run that has ended has recorded exactly one 'full' entry,
\* with status success.
C35_OneFullEntry ==
  \A i \in Runs :
    (runKind[i] = "full" /\ runPc[i] = "returned") =>
      /\ Len(SelectSeq(fullLog[i], LAMBDA e : e.stored)) = 1
      /\ \A n \in 1..Len(fullLog[i]) : fullLog[i][n].status = "success"

\* C35 as the code has it: a fullSync run that has ended has called logSync
\* for 'full' exactly once, with status success, whatever its sub-syncs
\* did; the entry is recorded unless the insert of logSync failed.
C35_OneFullLogCall ==
  \A i \in Runs :
    (runKind[i] = "full" /\ runPc[i] = "returned") =>
      /\ Len(fullLog[i]) = 1
      /\ fullLog[i][1].status = "success"

\* A fullSync run has ended and its entry is recorded, while a syncTeams
\* run is still under way.
C35_Witness ==
  \E i \in Runs :
    /\ runKind[i] = "full" /\ runPc[i] = "returned"
    /\ fullLog[i] = <<[status |-> "success", stored |-> TRUE]>>
    /\ isRunning["teams"]

\* C36: for the same start date, end date and current time, present, absent
\* or unparsable, the status route and fetchTournamentByName compute the
\* same status.
C36_RouteAgrees ==
  stPc = "done" =>
    /\ stBy = "route" => stStatus = TournamentStatus(stStart, stEnd, stNow)
    /\ stBy = "fetchTournamentByName" => stStatus = RouteStatus(stStart, stEnd, stNow)

\* The route computed the status of a tournament whose end date is no date
\* and whose start date is still to come.
C36_Witness ==
  /\ stPc = "done"
  /\ stBy = "route"
  /\ stEnd[1] = "bad"
  /\ stStart[1] = "date"
  /\ stNow < ParseDate(stStart)
  /\ stStatus = "ongoing"

Asked(request) == \E k \in 1..Len(tmAsked) : tmAsked[k] = request

HasMatch(type) == \E k \in 1..Len(tmMatches) : tmMatches[k] = type

\* C37: the LPDB match query is asked for only when the subpages gave no
\* match, and the search only when there is still no match after it; with
\* the list of subpages answered, an empty list of matches does lead to the
\* query and then to the search, and a failed query is followed by the search.
C37_FallbackChain ==
  /\ Asked("lpdb") => ~HasMatch("tournament_subpage")
  /\ Asked("search") => ~HasMatch("tournament_subpage") /\ ~HasMatch("lpdb_match")
  /\ (tmPc = "returned" /\ "subpages" \notin tmFaults) =>
       /\ ~HasMatch("tournament_subpage") => Asked("lpdb")
       /\ (~HasMatch("tournament_subpage") /\ ~HasMatch("lpdb_match")) => Asked("search")
  /\ "lpdb" \in tmFaults => Asked("search")

\* The subpages gave nothing, the LPDB query failed, and the search found
\* a match.
C37_Witness ==
  /\ tmPc = "returned"
  /\ Asked("page")
  /\ "lpdb" \in tmFaults
  /\ tmMatches = <<"search_result">>

\* C40: an upsert one of whose statements failed leaves the table as it was
\* before the batch and throws the error of that statement; whatever its
\* outcome, the client it took from the pool is released.
C40_BatchAtomic ==
  /\ [][dbPc' = "rollback" =>
         dbRows' = dbRows /\ dbThrew' = "statement" /\ dbFailedAt' # 0]_vars
  /\ [][dbFailedAt' # 0 => dbPc' = "rollback"]_vars
  /\ [](dbHeld = 0)
  /\ [](dbPc = "commit" => dbThrew = "nothing")

\* C40 as the code has it: the table is left as it was, the client is
\* released, and an error is thrown: the one of the statement, or the one
\* of ROLLBACK when that fails as well.
C40_BatchAtomicThrows ==
  /\ [][dbPc' = "rollback" =>
         dbRows' = dbRows /\ dbThrew' # "nothing" /\ dbFailedAt' # 0]_vars
  /\ [][dbFailedAt' # 0 => dbPc' = "rollback"]_vars
  /\ [](dbHeld = 0)
  /\ [](dbPc = "commit" => dbThrew = "nothing")

\* The statement of the second record of a batch failed, on a table that
\* holds rows of earlier batches; the error thrown is the one of ROLLBACK.
C40_Witness ==
  /\ dbPc = "rollback"
  /\ dbFailedAt = 2
  /\ dbThrew = "rollback"
  /\ dbRows # <<>>

====
